---- MODULE Spec2Model ----
(***************************************************************************)
(* Model of six hooks of the repository.                                   *)
(*                                                                         *)
(* usePropTypes (src/unnamed/part_009): the `validators` namespace, the    *)
(* `types` descriptor helpers, the `validateType` dispatch and the effect  *)
(* of the hook; specification Spec.                                        *)
(*                                                                         *)
(* useFetch (src/unnamed/part_006): the requests, their retries and the    *)
(* cleanup of the effect; specification SpecFetch.                         *)
(*                                                                         *)
(* useHistoryState (src/unnamed/part_007): the history of the observed     *)
(* states, undo, redo and checkpoints; specification SpecHistory.          *)
(*                                                                         *)
(* useItemHolder (src/src/hooks/providers/useItemHolder.jsx): the store    *)
(* and the updates queued until the render; specification SpecHolder.      *)
(*                                                                         *)
(* useDebounce (src/unnamed/part_006): the timer of the effect, the        *)
(* leading edge and cancelDebounce; specifications SpecDebounce and, with  *)
(* fairness for the timer, SpecDebounceLive.                               *)
(*                                                                         *)
(* useEffectX (src/src/hooks/useEffectX.jsx): the recorded dependencies    *)
(* and the runs of the callback; specification SpecEffectX.                *)
(*                                                                         *)
(* JavaScript values are records of one layout, so that any two of them    *)
(* can be compared:                                                        *)
(*   tag     constructor of the value: "undefined", "null", "boolean",     *)
(*           "number", "string", "symbol", "function", "array", "object"   *)
(*   b       the boolean; for a number, whether it is NaN; for a function, *)
(*           whether it has a prototype (a class or a plain function, as   *)
(*           opposed to an arrow function)                                 *)
(*   n       the number                                                    *)
(*   s       the string; for a function its name; for an object the name   *)
(*           of its class ("Object" for a literal)                         *)
(*   elems   the elements of an array                                      *)
(*   entries the own enumerable properties of an object, in insertion      *)
(*           order, each [k |-> key, v |-> value]                          *)
(* Message texts are the source's with the accents dropped.                *)
(***************************************************************************)
EXTENDS Integers, Sequences, FiniteSets, TLC

VARIABLES
    pc,      \* "ready": a call is about to be made; "done": it has returned
    call,    \* the call: [fn |-> the validator, args |-> the factory's arguments]
    prop,    \* the value that is validated
    result,  \* what the call returned (or threw)
    earlier, \* what the earlier validation of the same value against the same
             \* descriptor returned; NoResult before the effect has run again
    \* useFetch
    mounted,       \* "rendered" before the effect has run, "mounted", "unmounted"
    url,           \* the url of the current render
    retryCount,    \* config.retryCount
    cachePolicy,   \* config.cachePolicy
    data,          \* the state `data`: 0 for null, else the request (its number
                   \* in `chains`) whose response it is
    loading,       \* the state `loading`
    error,         \* the state `error`: "null" or "Error"
    retryAttempt,  \* retryAttempt.current
    cache,         \* cache.current: for each url 0 (no entry) or the request
                   \* whose response is cached
    controllers,   \* the AbortControllers in the order of their creation, each
                   \* [chain |-> the request it belongs to, status |-> "pending",
                   \* "aborted" (signalled, not yet rejected) or "settled"];
                   \* abortControllerRef.current is the last one
    timers,        \* the requests with a pending setTimeout(fetchData, retryDelay)
    chains,        \* the requests started by the effect or by refetch, each
                   \* [url |-> the url of its closure, retries |-> the attempts
                   \* started by its timers, errored |-> onError was called,
                   \* cleaned |-> the cleanup of the effect has run since it
                   \* started]
    \* useHistoryState
    history,       \* the state `history`: the snapshots, each the values of the
                   \* observed states
    currentIndex,  \* the state `currentIndex` (-1 before the effect has run)
    states,        \* the values of the observed states
    \* useItemHolder
    items,         \* the state `data` of the provider as of the last render: for
                   \* each key its value, or NoItem
    queue,         \* the updaters passed to setData since the last render
    logical,       \* the store that the calls made so far describe, each call
                   \* taken to act at once on the result of the calls before it
    \* useDebounce
    currentValue,   \* the argument `value` of the last render
    delay,          \* the argument `delay` of the last render
    leading,        \* options.leading
    debouncedValue, \* the state `debouncedValue`
    timeoutId,      \* the state `timeoutId`: 0 for null, else the id of a timer
    timeout,        \* the timer that is set, [id, value, remaining], or NoTimer
    age,            \* the time since `value` last changed, up to MaxDelay
    runs,           \* the number of times the effect has run
    cancelled,      \* cancelDebounce was called since the effect last ran
    debouncing,     \* "rendered" before the effect has run, "mounted", "unmounted"
    \* useEffectX
    dependencies,   \* the argument `dependencies` of the last render
    comparisonFn,   \* the argument `comparisonFn`: "strict" is the default
    prevDepsRef,    \* prevDepsRef.current
    ran,            \* the callback was called in the effect of the last render
    renders         \* the number of renders whose effects are over

validatorVars == <<pc, call, prop, result, earlier>>

fetchVars ==
    <<mounted, url, retryCount, cachePolicy, data, loading, error, retryAttempt,
      cache, controllers, timers, chains>>

historyVars == <<history, currentIndex, states>>

holderVars == <<items, queue, logical>>

debounceVars ==
    <<currentValue, delay, leading, debouncedValue, timeoutId, timeout, age, runs,
      cancelled, debouncing>>

effectXVars == <<dependencies, comparisonFn, prevDepsRef, ran, renders>>

vars == <<validatorVars, fetchVars, historyVars, holderVars, debounceVars, effectXVars>>

\* What the steps of one hook leave alone: the variables of the others
notValidatorVars == <<fetchVars, historyVars, holderVars, debounceVars, effectXVars>>
notFetchVars == <<validatorVars, historyVars, holderVars, debounceVars, effectXVars>>
notHistoryVars == <<validatorVars, fetchVars, holderVars, debounceVars, effectXVars>>
notHolderVars == <<validatorVars, fetchVars, historyVars, debounceVars, effectXVars>>
notDebounceVars == <<validatorVars, fetchVars, historyVars, holderVars, effectXVars>>
notEffectXVars == <<validatorVars, fetchVars, historyVars, holderVars, debounceVars>>

----------------------------------------------------------------------------
(* JavaScript values *)

JS(tag, b, n, s, elems, entries) ==
    [tag |-> tag, b |-> b, n |-> n, s |-> s, elems |-> elems, entries |-> entries]

Undefined == JS("undefined", FALSE, 0, "", <<>>, <<>>)
Null == JS("null", FALSE, 0, "", <<>>, <<>>)
Bool(b) == JS("boolean", b, 0, "", <<>>, <<>>)
Num(n) == JS("number", FALSE, n, "", <<>>, <<>>)
NaN == JS("number", TRUE, 0, "", <<>>, <<>>)
Str(s) == JS("string", FALSE, 0, s, <<>>, <<>>)
Sym == JS("symbol", FALSE, 0, "", <<>>, <<>>)
\* a class or a function declared with `function`: it has a prototype
Class(name) == JS("function", TRUE, 0, name, <<>>, <<>>)
\* an arrow function: it has no prototype
Arrow(name) == JS("function", FALSE, 0, name, <<>>, <<>>)
Arr(elems) == JS("array", FALSE, 0, "Array", elems, <<>>)
Obj(entries) == JS("object", FALSE, 0, "Object", <<>>, entries)
\* new <class>() with the given own properties
New(class, entries) == JS("object", FALSE, 0, class, <<>>, entries)
KV(k, v) == [k |-> k, v |-> v]

\* typeof v
TypeOf(v) ==
    CASE v.tag = "null" -> "object"
      [] v.tag = "array" -> "object"
      [] OTHER -> v.tag

\* Array.isArray(v)
IsArray(v) == v.tag = "array"

\* Object.keys(v) of an object
ObjectKeys(v) == [i \in 1..Len(v.entries) |-> v.entries[i].k]

\* Object.values(v) of an object
ObjectValues(v) == [i \in 1..Len(v.entries) |-> v.entries[i].v]

\* key in v, for an own property of an object
HasKey(v, key) == \E i \in 1..Len(v.entries) : v.entries[i].k = key

\* v[key]: the own property, undefined when there is none
Get(v, key) ==
    IF HasKey(v, key)
    THEN v.entries[CHOOSE i \in 1..Len(v.entries) : v.entries[i].k = key].v
    ELSE Undefined

\* seq.slice(1)
Slice1(seq) == [i \in 1..(Len(seq) - 1) |-> seq[i + 1]]

\* seq.includes(x) for a sequence of strings
Includes(seq, x) == \E i \in 1..Len(seq) : seq[i] = x

----------------------------------------------------------------------------
(* Conversions to text *)

Digit(d) == <<"0", "1", "2", "3", "4", "5", "6", "7", "8", "9">>[d + 1]

RECURSIVE NatToString(_)
NatToString(n) ==
    IF n < 10 THEN Digit(n) ELSE NatToString(n \div 10) \o Digit(n % 10)

\* String(n) of an integer
NumToString(n) == IF n < 0 THEN "-" \o NatToString(-n) ELSE NatToString(n)

\* seq.join(sep) of a sequence of strings
RECURSIVE Join(_, _)
Join(seq, sep) ==
    IF seq = <<>> THEN ""
    ELSE IF Len(seq) = 1 THEN seq[1]
    ELSE seq[1] \o sep \o Join(Tail(seq), sep)

\* Whether `${v}` throws a TypeError: a Symbol cannot be converted to a string
RECURSIVE StringOfThrows(_)
StringOfThrows(v) ==
    \/ v.tag = "symbol"
    \/ /\ v.tag = "array"
       /\ \E i \in 1..Len(v.elems) : StringOfThrows(v.elems[i])

\* `${v}` where it does not throw
RECURSIVE StringOf(_)
StringOf(v) ==
    CASE v.tag = "undefined" -> "undefined"
      [] v.tag = "null" -> "null"
      [] v.tag = "boolean" -> (IF v.b THEN "true" ELSE "false")
      [] v.tag = "number" -> (IF v.b THEN "NaN" ELSE NumToString(v.n))
      [] v.tag = "string" -> v.s
      [] v.tag = "function" ->
            (IF v.b THEN "class " \o v.s \o " {}" ELSE "() => {}")
      [] v.tag = "array" ->
            Join([i \in 1..Len(v.elems) |->
                    IF v.elems[i].tag \in {"undefined", "null"} THEN ""
                    ELSE StringOf(v.elems[i])], ",")
      [] v.tag = "object" -> "[object Object]"
      [] OTHER -> ""

\* Whether JSON.stringify gives a text for v (it gives undefined otherwise)
JSONDefined(v) == v.tag \notin {"undefined", "function", "symbol"}

Quote(s) == "\"" \o s \o "\""

\* JSON.stringify(v) where it gives a text
RECURSIVE JSONText(_)
JSONText(v) ==
    CASE v.tag = "null" -> "null"
      [] v.tag = "boolean" -> (IF v.b THEN "true" ELSE "false")
      [] v.tag = "number" -> (IF v.b THEN "null" ELSE NumToString(v.n))
      [] v.tag = "string" -> Quote(v.s)
      [] v.tag = "array" ->
            "[" \o Join([i \in 1..Len(v.elems) |->
                           IF JSONDefined(v.elems[i]) THEN JSONText(v.elems[i])
                           ELSE "null"], ",") \o "]"
      [] v.tag = "object" ->
            LET kept == SelectSeq(v.entries, LAMBDA e : JSONDefined(e.v))
            IN "{" \o Join([i \in 1..Len(kept) |->
                              Quote(kept[i].k) \o ":" \o JSONText(kept[i].v)], ",")
                   \o "}"
      [] OTHER -> ""

\* `${JSON.stringify(v)}`
JSONStringify(v) == IF JSONDefined(v) THEN JSONText(v) ELSE "undefined"

\* JSON.stringify(seq) of a sequence of strings
JSONStrings(seq) == "[" \o Join([i \in 1..Len(seq) |-> Quote(seq[i])], ",") \o "]"

----------------------------------------------------------------------------
(* Comparisons and coercions *)

\* Whether v is truthy
Truthy(v) ==
    CASE v.tag \in {"undefined", "null"} -> FALSE
      [] v.tag = "boolean" -> v.b
      [] v.tag = "number" -> ~v.b /\ v.n # 0
      [] v.tag = "string" -> v.s # ""
      [] OTHER -> TRUE

\* Whether v is a primitive value (compared by value, not by reference)
IsPrimitive(v) == v.tag \notin {"array", "object", "function", "symbol"}

\* a === b. Two objects, arrays, functions or symbols are equal only when they
\* are the same reference; the model never passes one reference twice.
StrictEquals(a, b) ==
    /\ IsPrimitive(a)
    /\ IsPrimitive(b)
    /\ a = b
    /\ ~(a.tag = "number" /\ a.b)

\* The comparison of Array.prototype.includes (SameValueZero): ===, except
\* that NaN is equal to NaN
SameValueZero(a, b) ==
    /\ IsPrimitive(a)
    /\ IsPrimitive(b)
    /\ a = b

\* arr.some(member => member === x) in the place of arr.includes(x)
ArrayIncludes_strict(arr, x) == \E i \in 1..Len(arr.elems) : StrictEquals(arr.elems[i], x)

\* arr.includes(x) for an array value
ArrayIncludes(arr, x) == \E i \in 1..Len(arr.elems) : SameValueZero(arr.elems[i], x)

\* The numeric strings the model's values can hold
NumericStrings == {NumToString(i) : i \in -1..12}

\* Number(v), as the relational operators convert an operand:
\* [isNaN |-> ..., n |-> ...]. A Symbol operand throws (NumberThrows).
NumberThrows(v) == StringOfThrows(v)

NumberOf(v) ==
    LET text == IF v.tag \in {"string", "array", "object", "function"}
                THEN StringOf(v) ELSE ""
    IN CASE v.tag = "number" -> [isNaN |-> v.b, n |-> v.n]
         [] v.tag = "boolean" -> [isNaN |-> FALSE, n |-> IF v.b THEN 1 ELSE 0]
         [] v.tag = "null" -> [isNaN |-> FALSE, n |-> 0]
         [] v.tag = "undefined" -> [isNaN |-> TRUE, n |-> 0]
         [] OTHER ->
              IF text = "" THEN [isNaN |-> FALSE, n |-> 0]
              ELSE IF text \in NumericStrings
              THEN [isNaN |-> FALSE,
                    n |-> CHOOSE i \in -1..12 : NumToString(i) = text]
              ELSE [isNaN |-> TRUE, n |-> 0]

\* a < b, a > b, a <= b, a >= b on operands that convert to numbers: every
\* comparison with NaN is false
Less(a, b) ==
    LET x == NumberOf(a)
        y == NumberOf(b)
    IN ~x.isNaN /\ ~y.isNaN /\ x.n < y.n

Greater(a, b) == Less(b, a)

\* a <= b that leaves out the equal operands
LessEq_exclusive(a, b) ==
    LET x == NumberOf(a)
        y == NumberOf(b)
    IN ~x.isNaN /\ ~y.isNaN /\ x.n < y.n

LessEq(a, b) ==
    LET x == NumberOf(a)
        y == NumberOf(b)
    IN ~x.isNaN /\ ~y.isNaN /\ x.n <= y.n

GreaterEq(a, b) == LessEq(b, a)

\* The names of the classes v is an instance of (its prototype chain)
ProtoChain(v) ==
    CASE v.tag = "array" -> {"Array", "Object"}
      [] v.tag = "object" -> {v.s, "Object"}
      [] OTHER -> {}

----------------------------------------------------------------------------
(* What a validator call gives: true, a string (the failure message), a     *)
(* function (a factory called where a validator was expected), or an error  *)
(* thrown.                                                                  *)

True == [kind |-> "true", msg |-> ""]
Message(text) == [kind |-> "string", msg |-> text]
Closure == [kind |-> "function", msg |-> ""]
Threw(text) == [kind |-> "throw", msg |-> text]
NoResult == [kind |-> "none", msg |-> ""]

SymbolError == Threw("TypeError: Cannot convert a Symbol value to a string")
NullError == Threw("TypeError: Cannot read properties of null")
NotAFunctionError == Threw("TypeError: validators[...](...) is not a function")
InstanceofError == Threw("TypeError: Function has non-object prototype in instanceof check")

----------------------------------------------------------------------------
(* validators: the members of the namespace reach each other through the   *)
(* lookup validators[name], which is declared before they are defined.     *)
(* validators(name, args, v) is validators[name](v) for a primitive kind   *)
(* and for `type`, and validators[name](...args)(v) for the others.        *)

RECURSIVE validators(_, _, _)

(* The primitive kinds. A failure message interpolates the value, which    *)
(* throws for a Symbol.                                                    *)

validators_string(v) ==
    IF TypeOf(v) = "string" THEN True
    ELSE IF StringOfThrows(v) THEN SymbolError
    ELSE Message("El valor '" \o StringOf(v) \o "' no es una cadena de texto (string).")

validators_number(v) ==
    IF TypeOf(v) = "number" THEN True
    ELSE IF StringOfThrows(v) THEN SymbolError
    ELSE Message("El valor '" \o StringOf(v) \o "' no es un numero.")

validators_bool(v) ==
    IF TypeOf(v) = "boolean" THEN True
    ELSE IF StringOfThrows(v) THEN SymbolError
    ELSE Message("El valor '" \o StringOf(v) \o "' no es un booleano.")

validators_array(v) ==
    IF IsArray(v) THEN True
    ELSE IF StringOfThrows(v) THEN SymbolError
    ELSE Message("El valor '" \o StringOf(v) \o "' no es un arreglo.")

\* validators.object with only the typeof test, as a check of C1 needs it
validators_object_typeof(v) ==
    IF TypeOf(v) = "object" THEN True
    ELSE IF StringOfThrows(v) THEN SymbolError
    ELSE Message("El valor '" \o StringOf(v) \o "' no es un objeto.")

validators_object(v) ==
    IF v # Null /\ TypeOf(v) = "object" /\ ~IsArray(v) THEN True
    ELSE IF StringOfThrows(v) THEN SymbolError
    ELSE Message("El valor '" \o StringOf(v) \o "' no es un objeto.")

validators_undefined(v) ==
    IF TypeOf(v) = "undefined" THEN True
    ELSE IF StringOfThrows(v) THEN SymbolError
    ELSE Message("El valor '" \o StringOf(v) \o "' no es undefined.")

validators_null(v) ==
    IF v = Null THEN True
    ELSE IF StringOfThrows(v) THEN SymbolError
    ELSE Message("El valor '" \o StringOf(v) \o "' no es null.")

validators_function(v) ==
    IF TypeOf(v) = "function" THEN True
    ELSE IF StringOfThrows(v) THEN SymbolError
    ELSE Message("El valor '" \o StringOf(v) \o "' no es una funcion.")

\* The eight primitive kinds (BasicType)
BasicType ==
    {"string", "number", "bool", "array", "object", "undefined", "null", "function"}

\* The validators that are built from arguments: validators[name](...args)
\* gives the validating function
Factories == {"arrayOf", "oneOf", "oneOfType", "instanceOf", "shape", "range"}

\* The own properties of `validators`, every one a function
ValidatorNames == BasicType \cup Factories \cup {"type"}

\* validators.type(v): the first kind, in the source's order, whose
\* validator accepts v; a validator that fails on the way builds its message
\* and throws for a Symbol
TypeOrder ==
    <<"array", "object", "null", "undefined", "string", "number", "bool", "function">>

RECURSIVE TypeFrom(_, _)
TypeFrom(i, v) ==
    IF i > Len(TypeOrder) THEN Message(TypeOf(v))
    ELSE LET r == validators(TypeOrder[i], <<>>, v)
         IN IF r.kind = "true" THEN Message(TypeOrder[i])
            ELSE IF r.kind = "throw" THEN r
            ELSE TypeFrom(i + 1, v)

validators_type(v) == TypeFrom(1, v)

\* typeof validators[t] === 'function', t any value used as a property key
IsValidator(t) == t.tag # "symbol" /\ StringOf(t) \in ValidatorNames

\* validators[t](v), t a key for which IsValidator holds: a primitive kind
\* validates v, `type` names v's type, a factory only builds a function
ApplyValidator(t, v) ==
    LET name == StringOf(t)
    IN IF name \in BasicType \cup {"type"} THEN validators(name, <<>>, v)
       ELSE Closure

\* types.some(...) that stops after the first type, whatever it gives
SomeValidator_first(typeList, i, v) ==
    IF i > Len(typeList) THEN "no"
    ELSE LET r == ApplyValidator(typeList[i], v)
         IN IF r.kind = "throw" THEN "throw"
            ELSE IF r.kind = "true" THEN "yes"
            ELSE "no"

\* types.every(...) in the place of types.some(...)
SomeValidator_every(typeList, i, v) ==
    IF \E j \in i..Len(typeList) : ApplyValidator(typeList[j], v).kind = "throw"
    THEN "throw"
    ELSE IF \A j \in i..Len(typeList) : ApplyValidator(typeList[j], v).kind = "true"
    THEN "yes"
    ELSE "no"

\* types.some(type => validators[type](v) === true), in order: "yes" at the
\* first validator that accepts, "throw" if one throws before that, else "no"
RECURSIVE SomeValidator(_, _, _)
SomeValidator(typeList, i, v) ==
    IF i > Len(typeList) THEN "no"
    ELSE LET r == ApplyValidator(typeList[i], v)
         IN IF r.kind = "throw" THEN "throw"
            ELSE IF r.kind = "true" THEN "yes"
            ELSE SomeValidator(typeList, i + 1, v)

\* The test of the type list that looks at its first member only
InvalidTypeList_firstOnly(typeList) ==
    \/ ~IsArray(typeList)
    \/ Len(typeList.elems) > 0 /\ ~IsValidator(typeList.elems[1])

\* The test of the type list without its types.every(...) half
InvalidTypeList_arrayOnly(typeList) == ~IsArray(typeList)

\* !Array.isArray(types) || !types.every(type => typeof validators[type] === 'function')
InvalidTypeList(typeList) ==
    \/ ~IsArray(typeList)
    \/ \E i \in 1..Len(typeList.elems) : ~IsValidator(typeList.elems[i])

----------------------------------------------------------------------------
(* validators.arrayOf(types)(v) *)

\* prop.filter(item => !types.some(...)): the elements no listed type accepts
InvalidItems(typeList, v) ==
    SelectSeq(v.elems, LAMBDA item : SomeValidator(typeList.elems, 1, item) = "no")

validators_arrayOf(typeList, v) ==
    IF InvalidTypeList(typeList)
    THEN Message("El array de tipos proporcionado a arrayOf no es valido.")
    ELSE IF Len(typeList.elems) = 0
    THEN Message("El array de tipos proporcionado a arrayOf no puede estar vacio.")
    ELSE IF ~IsArray(v)
    THEN (IF StringOfThrows(v) THEN SymbolError
          ELSE Message("El valor '" \o StringOf(v) \o "' no es un arreglo."))
    ELSE IF \E i \in 1..Len(v.elems) :
               SomeValidator(typeList.elems, 1, v.elems[i]) = "throw"
    THEN SymbolError
    ELSE LET invalidItems == InvalidItems(typeList, v)
         IN IF Len(invalidItems) = 0 THEN True
            ELSE Message("El arreglo contiene elementos invalidos: "
                         \o JSONText(Arr(invalidItems)))

----------------------------------------------------------------------------
(* validators.oneOf(options)(v) *)

validators_oneOf(options, v) ==
    IF ~IsArray(options)
    THEN Message("El array de opciones proporcionado a oneOf no es valido.")
    ELSE IF Len(options.elems) = 0
    THEN Message("El array de opciones proporcionado a oneOf no puede estar vacio.")
    ELSE IF ArrayIncludes(options, v) THEN True
    ELSE IF StringOfThrows(v) THEN SymbolError
    ELSE Message("El valor '" \o StringOf(v)
                 \o "' no esta entre las opciones permitidas: " \o JSONText(options))

----------------------------------------------------------------------------
(* validators.oneOfType(types)(v) *)

validators_oneOfType(typeList, v) ==
    IF InvalidTypeList(typeList)
    THEN Message("El array de tipos proporcionado a oneOfType no es valido.")
    ELSE IF Len(typeList.elems) = 0
    THEN Message("El array de tipos proporcionado a oneOfType no puede estar vacio.")
    ELSE IF Len(typeList.elems) = 1
    THEN ApplyValidator(typeList.elems[1], v)
    ELSE LET some == SomeValidator(typeList.elems, 1, v)
         IN IF some = "throw" THEN SymbolError
            ELSE IF some = "yes" THEN True
            ELSE IF StringOfThrows(v) THEN SymbolError
            ELSE Message("El valor '" \o StringOf(v)
                         \o "' no cumple con ninguno de los tipos permitidos: "
                         \o JSONText(typeList))

----------------------------------------------------------------------------
(* validators.instanceOf(clazz)(v) *)

\* validators.instanceOf without the typeof test of clazz
validators_instanceOf_unchecked(clazz, v) ==
    IF TypeOf(v) # "object" \/ v = Null
    THEN (IF StringOfThrows(v) THEN SymbolError
          ELSE Message("El valor '" \o StringOf(v) \o "' no es un objeto."))
    ELSE IF ~clazz.b THEN InstanceofError
    ELSE IF clazz.s \in ProtoChain(v) THEN True
    ELSE IF StringOfThrows(v) THEN SymbolError
    ELSE Message("El valor '" \o StringOf(v) \o "' no es una instancia de "
                 \o clazz.s \o ".")

validators_instanceOf(clazz, v) ==
    IF TypeOf(clazz) # "function"
    THEN Message("El validador instanceOf no es valido. Se esperaba una clase.")
    ELSE IF TypeOf(v) # "object" \/ v = Null
    THEN (IF StringOfThrows(v) THEN SymbolError
          ELSE Message("El valor '" \o StringOf(v) \o "' no es un objeto."))
    ELSE IF ~clazz.b THEN InstanceofError
    ELSE IF clazz.s \in ProtoChain(v) THEN True
    ELSE IF StringOfThrows(v) THEN SymbolError
    ELSE Message("El valor '" \o StringOf(v) \o "' no es una instancia de "
                 \o clazz.s \o ".")

----------------------------------------------------------------------------
(* validators.range(min, max)(v) *)

RangeMessage(min, max, v) ==
    Message("El valor '" \o StringOf(v) \o "' no esta dentro del rango esperado: ["
            \o StringOf(min) \o ", " \o StringOf(max) \o "]")

\* validators.range without the typeof test of min and max
validators_range_untypedBounds(min, max, v) ==
    IF NumberThrows(min) \/ NumberThrows(max) THEN SymbolError
    ELSE IF Greater(min, max)
    THEN Message("El valor min no puede ser mayor que el valor max.")
    ELSE IF TypeOf(v) # "number"
    THEN (IF StringOfThrows(v) THEN SymbolError
          ELSE Message("El valor '" \o StringOf(v) \o "' no es un numero."))
    ELSE IF Less(v, min) \/ Greater(v, max) THEN RangeMessage(min, max, v)
    ELSE IF TypeOf(v) = "number" /\ GreaterEq(v, min) /\ LessEq(v, max) THEN True
    ELSE RangeMessage(min, max, v)

\* validators.range whose last line returns true without its test
validators_range_checkedOnce(min, max, v) ==
    IF TypeOf(min) # "number" \/ TypeOf(max) # "number"
    THEN Message("Los valores min y max proporcionados a range no son validos.")
    ELSE IF Greater(min, max)
    THEN Message("El valor min no puede ser mayor que el valor max.")
    ELSE IF TypeOf(v) # "number"
    THEN (IF StringOfThrows(v) THEN SymbolError
          ELSE Message("El valor '" \o StringOf(v) \o "' no es un numero."))
    ELSE IF Less(v, min) \/ Greater(v, max) THEN RangeMessage(min, max, v)
    ELSE True

validators_range(min, max, v) ==
    IF TypeOf(min) # "number" \/ TypeOf(max) # "number"
    THEN Message("Los valores min y max proporcionados a range no son validos.")
    ELSE IF Greater(min, max)
    THEN Message("El valor min no puede ser mayor que el valor max.")
    ELSE IF TypeOf(v) # "number"
    THEN (IF StringOfThrows(v) THEN SymbolError
          ELSE Message("El valor '" \o StringOf(v) \o "' no es un numero."))
    ELSE IF Less(v, min) \/ Greater(v, max) THEN RangeMessage(min, max, v)
    ELSE IF TypeOf(v) = "number" /\ GreaterEq(v, min) /\ LessEq(v, max) THEN True
    ELSE RangeMessage(min, max, v)

----------------------------------------------------------------------------
(* validators.shape(shapeObj, strict)(v) *)

\* The i-th argument of a call, undefined when it is not passed
Arg(args, i) == IF i <= Len(args) THEN args[i] ELSE Undefined

\* propKeys.filter(key => !keys.includes(key))
ExtraKeys(propKeys, keys) == SelectSeq(propKeys, LAMBDA key : ~Includes(keys, key))

ExtraKeysMessage(extraKeys) ==
    Message("El objeto tiene claves adicionales no permitidas: " \o JSONStrings(extraKeys)
            \o ". Elimina estas claves: " \o JSONStrings(extraKeys) \o ".")

\* Level 2 with only the comparison of the two lengths
Strict2Check_lengths(keys, propKeys) ==
    IF Len(propKeys) # Len(keys)
    THEN Message("El objeto tiene claves adicionales o faltantes. Claves esperadas: "
                 \o JSONStrings(keys) \o ", claves recibidas: "
                 \o JSONStrings(propKeys) \o ".")
    ELSE True

\* The checks of level 2 (strict === 2): True when they pass
Strict2Check(keys, propKeys) ==
    IF Len(propKeys) # Len(keys)
    THEN Message("El objeto tiene claves adicionales o faltantes. Claves esperadas: "
                 \o JSONStrings(keys) \o ", claves recibidas: "
                 \o JSONStrings(propKeys) \o ".")
    ELSE IF Len(ExtraKeys(propKeys, keys)) > 0
    THEN ExtraKeysMessage(ExtraKeys(propKeys, keys))
    ELSE True

\* The checks of level 1 (strict === 1): True when they pass
Strict1Check(keys, propKeys, v) ==
    IF Len(ExtraKeys(propKeys, keys)) > 0
    THEN ExtraKeysMessage(ExtraKeys(propKeys, keys))
    ELSE IF ~(\E i \in 1..Len(keys) : Get(v, keys[i]) # Undefined)
    THEN Message("El objeto debe tener al menos una clave de las esperadas: "
                 \o JSONStrings(keys) \o ".")
    ELSE True

\* The checks of level 1 made at level 0 too (strict !== 2 in the place of
\* strict === 1)
StrictCheck_level1Below2(strict, keys, propKeys, v) ==
    IF strict = Num(2) THEN Strict2Check(keys, propKeys)
    ELSE Strict1Check(keys, propKeys, v)

\* The checks of level 1 left out
StrictCheck_level2Only(strict, keys, propKeys, v) ==
    IF strict = Num(2) THEN Strict2Check(keys, propKeys)
    ELSE True

\* The checks on the key sets that the level asks for
StrictCheck(strict, keys, propKeys, v) ==
    IF strict = Num(2) THEN Strict2Check(keys, propKeys)
    ELSE IF strict = Num(1) THEN Strict1Check(keys, propKeys, v)
    ELSE True

\* const types = Array.isArray(shapeObj[key]) ? shapeObj[key] : [shapeObj[key]]
FieldTypes(shapeObj, key) ==
    IF IsArray(Get(shapeObj, key)) THEN Get(shapeObj, key).elems
    ELSE <<Get(shapeObj, key)>>

\* types.map(type => typeof type === 'string' ? type : JSON.stringify(type)).join(', ')
ExpectedTypes(typeSeq) ==
    Join([i \in 1..Len(typeSeq) |->
            IF TypeOf(typeSeq[i]) = "string" THEN typeSeq[i].s
            ELSE IF JSONDefined(typeSeq[i]) THEN JSONText(typeSeq[i])
            ELSE ""], ", ")

\* The message for a key none of whose types accepts the value; naming the
\* received type throws for a Symbol
KeyMessage(key, typeSeq, value) ==
    LET received == validators("type", <<>>, value)
    IN IF received.kind = "throw" THEN received
       ELSE Message("La clave '" \o key
                    \o "' del objeto no cumple con los tipos esperados. Valor recibido: "
                    \o Quote(received.msg) \o ". Tipos esperados: "
                    \o ExpectedTypes(typeSeq) \o ".")

\* validators[name](...args)(v): a primitive validator (or `type`) applied
\* to the first argument gives no function to call
CallFactory(name, args, v) ==
    IF name \in Factories THEN validators(name, args, v)
    ELSE IF ApplyValidator(Str(name), Arg(args, 1)).kind = "throw" THEN SymbolError
    ELSE NotAFunctionError

\* The callback of types.some(...) that ends in `return true`
TypeResult_fallthroughAccepts(type, strict, value) ==
    IF TypeOf(type) = "string" /\ IsValidator(type)
    THEN ApplyValidator(type, value)
    ELSE IF type = Null THEN NullError
    ELSE IF /\ TypeOf(type) = "object"
            /\ Truthy(Get(type, "validator"))
            /\ IsValidator(Get(type, "validator"))
    THEN CallFactory(StringOf(Get(type, "validator")), Slice1(ObjectValues(type)), value)
    ELSE IF TypeOf(type) = "object" /\ ~IsArray(type) /\ type # Null
    THEN validators("shape", <<type, strict>>, value)
    ELSE True

\* The callback of types.some(...) that validates a nested plain object
\* with strict = 0
TypeResult_nestedLenient(type, strict, value) ==
    IF TypeOf(type) = "string" /\ IsValidator(type)
    THEN ApplyValidator(type, value)
    ELSE IF type = Null THEN NullError
    ELSE IF /\ TypeOf(type) = "object"
            /\ Truthy(Get(type, "validator"))
            /\ IsValidator(Get(type, "validator"))
    THEN CallFactory(StringOf(Get(type, "validator")), Slice1(ObjectValues(type)), value)
    ELSE IF TypeOf(type) = "object" /\ ~IsArray(type) /\ type # Null
    THEN validators("shape", <<type, Num(0)>>, value)
    ELSE Message("")

\* The callback of types.some(...) for one type of a key: what the type's
\* validation of the value gives. "true" accepts; anything else does not.
TypeResult(type, strict, value) ==
    IF TypeOf(type) = "string" /\ IsValidator(type)
    THEN ApplyValidator(type, value)
    ELSE IF type = Null THEN NullError
    ELSE IF /\ TypeOf(type) = "object"
            /\ Truthy(Get(type, "validator"))
            /\ IsValidator(Get(type, "validator"))
    THEN CallFactory(StringOf(Get(type, "validator")), Slice1(ObjectValues(type)), value)
    ELSE IF TypeOf(type) = "object" /\ ~IsArray(type) /\ type # Null
    THEN validators("shape", <<type, strict>>, value)
    ELSE Message("")

\* types.some(...) for a key, in order: "yes", "no" or "throw"
RECURSIVE SomeType(_, _, _, _)
SomeType(typeSeq, i, strict, value) ==
    IF i > Len(typeSeq) THEN "no"
    ELSE LET r == TypeResult(typeSeq[i], strict, value)
         IN IF r.kind = "throw" THEN "throw"
            ELSE IF r.kind = "true" THEN "yes"
            ELSE SomeType(typeSeq, i + 1, strict, value)

\* for (let key of keys) { ... } from the i-th key on
RECURSIVE CheckKeys(_, _, _, _, _)
CheckKeys(shapeObj, strict, v, keys, i) ==
    IF i > Len(keys) THEN True
    ELSE LET typeSeq == FieldTypes(shapeObj, keys[i])
             isValid == SomeType(typeSeq, 1, strict, Get(v, keys[i]))
         IN IF isValid = "throw" THEN Threw("TypeError")
            ELSE IF isValid = "no" THEN KeyMessage(keys[i], typeSeq, Get(v, keys[i]))
            ELSE CheckKeys(shapeObj, strict, v, keys, i + 1)

validators_shape(shapeObj, strictArg, v) ==
    LET strict == IF strictArg = Undefined THEN Num(0) ELSE strictArg
    IN IF TypeOf(shapeObj) # "object" \/ shapeObj = Null \/ IsArray(shapeObj)
       THEN Message("El objeto de forma proporcionado a shape no es valido. "
                    \o "Debe ser un objeto no nulo y no un array.")
       ELSE IF TypeOf(v) # "object" \/ v = Null \/ IsArray(v)
       THEN Message("El valor proporcionado no es un objeto. Valor recibido: "
                    \o JSONStringify(v) \o ".")
       ELSE IF NumberThrows(strict) THEN SymbolError
       ELSE IF Less(strict, Num(0)) \/ Greater(strict, Num(2))
       THEN Message("El valor de strict proporcionado a shape no es valido. "
                    \o "Debe ser 0, 1 o 2.")
       ELSE IF validators_number(strict).kind # "true"
       THEN Message(validators_number(strict).msg
                    \o " Debes corregir la propiedad [strict]")
       ELSE LET keys == ObjectKeys(shapeObj)
                propKeys == ObjectKeys(v)
                level == StrictCheck(strict, keys, propKeys, v)
            IN IF level.kind # "true" THEN level
               ELSE CheckKeys(shapeObj, strict, v, keys, 1)

----------------------------------------------------------------------------
(* types: the helpers that build descriptors *)

types_string == Obj(<<KV("type", Str("string"))>>)
types_number == Obj(<<KV("type", Str("number"))>>)
types_bool == Obj(<<KV("type", Str("bool"))>>)
types_array == Obj(<<KV("type", Str("array"))>>)
types_object == Obj(<<KV("type", Str("object"))>>)
types_undefined == Obj(<<KV("type", Str("undefined"))>>)
types_null == Obj(<<KV("type", Str("null"))>>)
types_function == Obj(<<KV("type", Str("function"))>>)

\* types[kind]() for a primitive kind
types_basic(kind) == Obj(<<KV("type", Str(kind))>>)

types_arrayOf(typeList) ==
    Obj(<<KV("validator", Str("arrayOf")), KV("types", typeList)>>)

types_oneOf(options) ==
    Obj(<<KV("validator", Str("oneOf")), KV("options", options)>>)

types_oneOfType(typeList) ==
    Obj(<<KV("validator", Str("oneOfType")), KV("types", typeList)>>)

types_instanceOf(clazz) ==
    Obj(<<KV("validator", Str("instanceOf")), KV("clazz", clazz)>>)

types_shape(shapeObj, strictArg) ==
    Obj(<<KV("validator", Str("shape")), KV("shapeObj", shapeObj),
          KV("strict", IF strictArg = Undefined THEN Num(0) ELSE strictArg)>>)

types_range(min, max) ==
    Obj(<<KV("validator", Str("range")), KV("min", min), KV("max", max)>>)

----------------------------------------------------------------------------
(* usePropTypes: validateType(type, v) *)

\* typeof type === 'object' && 'validator' in type ? type.validator
\*   : typeof type === 'object' && 'type' in type ? type.type : type
ValidatorKey(type) ==
    IF TypeOf(type) = "object" /\ HasKey(type, "validator") THEN Get(type, "validator")
    ELSE IF TypeOf(type) = "object" /\ HasKey(type, "type") THEN Get(type, "type")
    ELSE type

\* types.map(t => (typeof t === 'object' && 'type' in t ? t.type : t))
ProcessedTypes(typeList) ==
    Arr([i \in 1..Len(typeList.elems) |->
           IF TypeOf(typeList.elems[i]) = "object" /\ HasKey(typeList.elems[i], "type")
           THEN Get(typeList.elems[i], "type")
           ELSE typeList.elems[i]])

\* Whether building processedTypes throws: `types` is no array (it has no
\* map), or a member is null ('type' in null)
ProcessedTypesThrow(typeList) ==
    \/ ~IsArray(typeList)
    \/ \E i \in 1..Len(typeList.elems) : typeList.elems[i] = Null

\* Object.keys(validators).join(', ')
ValidatorKeysText ==
    "string, number, bool, array, object, undefined, null, function, "
    \o "arrayOf, oneOf, oneOfType, instanceOf, shape, range, type"

\* processedTypes.join(', ')
JoinValues(arr) ==
    Join([i \in 1..Len(arr.elems) |->
            IF arr.elems[i].tag \in {"undefined", "null"} THEN ""
            ELSE StringOf(arr.elems[i])], ", ")

InvalidTypesMessage(name, processed) ==
    IF StringOfThrows(processed) THEN SymbolError
    ELSE Message("\n                                    El array de tipos proporcionado a "
                 \o name \o " no es valido."
                 \o "\n                                    Tipos validos: "
                 \o ValidatorKeysText
                 \o "\n                                    Tipos proporcionados: "
                 \o JoinValues(processed)
                 \o "\n                                ")

\* The cases 'arrayOf' and 'oneOfType'
ValidateTypeList(name, type, v) ==
    LET typeList == Get(type, "types")
    IN IF ProcessedTypesThrow(typeList) THEN Threw("TypeError")
       ELSE IF \E i \in 1..Len(ProcessedTypes(typeList).elems) :
                  ~IsValidator(ProcessedTypes(typeList).elems[i])
       THEN InvalidTypesMessage(name, ProcessedTypes(typeList))
       ELSE validators(name, <<ProcessedTypes(typeList)>>, v)

validateType(type, v) ==
    IF type = Null THEN NullError
    ELSE LET validatorKey == ValidatorKey(type)
         IN IF TypeOf(validatorKey) # "string"
            THEN Threw("Error: El tipo '" \o
                       (IF StringOfThrows(validatorKey) THEN "" ELSE StringOf(validatorKey))
                       \o "' no es valido.")
            ELSE CASE validatorKey.s \in BasicType -> validators(validatorKey.s, <<>>, v)
                   [] validatorKey.s \in {"arrayOf", "oneOfType"} ->
                        ValidateTypeList(validatorKey.s, type, v)
                   [] validatorKey.s = "oneOf" ->
                        validators("oneOf", <<Get(type, "options")>>, v)
                   [] validatorKey.s = "instanceOf" ->
                        validators("instanceOf", <<Get(type, "clazz")>>, v)
                   [] validatorKey.s = "shape" ->
                        validators("shape", <<Get(type, "shapeObj"), Get(type, "strict")>>, v)
                   [] validatorKey.s = "range" ->
                        validators("range", <<Get(type, "min"), Get(type, "max")>>, v)
                   [] OTHER ->
                        Threw("Error: El tipo '" \o validatorKey.s \o "' no es valido.")

----------------------------------------------------------------------------
(* usePropTypes(props, propTypes): the effect *)

\* The effect ran to its end without throwing
ReturnedNothing == [kind |-> "undefined", msg |-> ""]

\* removeKey(obj, keyToRemove)
removeKey(obj, keyToRemove) ==
    [obj EXCEPT !.entries = SelectSeq(obj.entries, LAMBDA e : e.k # keyToRemove)]

\* The error thrown for a property that is not valid; naming the type of the
\* received value throws for a Symbol
PropertyError(key, value, type, validationResult) ==
    LET received == validators("type", <<>>, value)
        typeInfo == IF TypeOf(type) = "object" /\ type # Null /\ HasKey(type, "validator")
                    THEN removeKey(type, "validator")
                    ELSE type
    IN IF received.kind = "throw" THEN received
       ELSE Threw("Error: \nLa propiedad '" \o key \o "' no es valida."
                  \o "\nValor recibido: " \o JSONStringify(value)
                  \o "\nTipo de valor recibido: " \o received.msg
                  \o "\nEsperado: " \o JSONStringify(typeInfo)
                  \o "\nError:\n"
                  \o (IF validationResult.kind = "function" THEN "(prop) => {...}"
                      ELSE validationResult.msg)
                  \o "\n")

\* if (validationResult) in the place of if (validationResult !== true)
ThrowUnlessValid_truthy(key, value, type, validationResult) ==
    IF validationResult.kind = "throw" THEN validationResult
    ELSE ReturnedNothing

\* What follows the call of validateType in the callback: an error the call
\* threw goes on, and a result other than true is thrown as an Error
ThrowUnlessValid(key, value, type, validationResult) ==
    IF validationResult.kind = "throw" THEN validationResult
    ELSE IF validationResult # True
    THEN PropertyError(key, value, type, validationResult)
    ELSE ReturnedNothing

\* The callback of forEach for one entry [key, value] of propTypes
EntryResult(props, key, value) ==
    IF value \in {Undefined, Null}
    THEN Threw("TypeError: Cannot destructure property 'type'")
    ELSE ThrowUnlessValid(key, Get(props, key), Get(value, "type"),
                          validators("validateType", <<Get(value, "type")>>, Get(props, key)))

\* forEach goes on to the rest of the entries unless the callback threw
UnlessThrown(r, rest) == IF r.kind = "throw" THEN r ELSE rest

\* Object.entries(propTypes).forEach(...) from the i-th entry on: the first
\* throw ends it
RECURSIVE ForEachEntry(_, _, _)
ForEachEntry(props, propTypes, i) ==
    IF i > Len(propTypes.entries) THEN ReturnedNothing
    ELSE UnlessThrown(EntryResult(props, propTypes.entries[i].k, propTypes.entries[i].v),
                      ForEachEntry(props, propTypes, i + 1))

usePropTypes(props, propTypes) ==
    IF Truthy(props) /\ Truthy(propTypes)
    THEN ForEachEntry(props, propTypes, 1)
    ELSE ReturnedNothing

----------------------------------------------------------------------------
(* The lookup validators[name] and its application. validateType and the   *)
(* effect of usePropTypes, which are no members of the namespace, are      *)
(* entered through the same lookup, so that every call from one function   *)
(* of the file to another is a call by name.                               *)

validators(name, args, v) ==
    CASE name = "string" -> validators_string(v)
      [] name = "number" -> validators_number(v)
      [] name = "bool" -> validators_bool(v)
      [] name = "array" -> validators_array(v)
      [] name = "object" -> validators_object(v)
      [] name = "undefined" -> validators_undefined(v)
      [] name = "null" -> validators_null(v)
      [] name = "function" -> validators_function(v)
      [] name = "type" -> validators_type(v)
      [] name = "arrayOf" -> validators_arrayOf(Arg(args, 1), v)
      [] name = "oneOf" -> validators_oneOf(Arg(args, 1), v)
      [] name = "oneOfType" -> validators_oneOfType(Arg(args, 1), v)
      [] name = "instanceOf" -> validators_instanceOf(Arg(args, 1), v)
      [] name = "shape" -> validators_shape(Arg(args, 1), Arg(args, 2), v)
      [] name = "range" -> validators_range(Arg(args, 1), Arg(args, 2), v)
      [] name = "validateType" -> validateType(Arg(args, 1), v)
      [] name = "usePropTypes" -> usePropTypes(v, Arg(args, 1))

----------------------------------------------------------------------------
(* The values and the calls the model draws from *)

\* Numbers are 0..MaxNum (and NaN)
MaxNum == 2
\* Arrays and lists of types or options have at most MaxLen members
MaxLen == 2
\* Objects and shapes are built over the first MaxKeys of KeyNames
MaxKeys == 2

KeyNames == <<"a", "b", "c", "d">>
Keys == {KeyNames[i] : i \in 1..MaxKeys}

SeqsUpTo(S, n) == UNION {[1..k -> S] : k \in 0..n}

\* Stands for "no such property" when an object is built from a function
Absent == JS("absent", FALSE, 0, "", <<>>, <<>>)

\* The object with the properties f gives to the keys, in the order of KeyNames
ObjectOf(f) ==
    Obj(SelectSeq([i \in 1..MaxKeys |-> KV(KeyNames[i], f[KeyNames[i]])],
                  LAMBDA e : e.v # Absent))

ObjectsOver(S) == {ObjectOf(f) : f \in [Keys -> S \cup {Absent}]}

Scalars ==
    {Undefined, Null, Bool(TRUE), Bool(FALSE), NaN, Str(""), Str("x"),
     Arrow("f"), Class("Foo"), Sym} \cup {Num(i) : i \in 0..MaxNum}

Arrays == {Arr(s) : s \in SeqsUpTo({Num(1), Str("x"), Undefined, Sym}, MaxLen)}

Objects == ObjectsOver({Undefined, Num(1), Str("x"), Obj(<<KV("a", Num(1))>>)})

John == Obj(<<KV("name", Str("John")), KV("age", Num(30))>>)

OtherValues ==
    {John,
     Obj(<<KV("name", Str("John"))>>),
     Obj(<<KV("age", Num(30)), KV("name", Str("John"))>>),
     Obj(<<KV("a", Num(1)), KV("b", Num(2))>>),
     Obj(<<KV("b", Num(1)), KV("a", Str("x"))>>),
     Obj(<<KV("a", Sym)>>),
     Obj(<<KV("a", Obj(<<KV("a", Obj(<<KV("a", Num(1)), KV("b", Num(1))>>))>>))>>),
     Obj(<<KV("a", Obj(<<KV("a", Num(1)), KV("b", Str("x"))>>))>>),
     Obj(<<KV("type", Str("x"))>>),
     New("Foo", <<>>),
     New("Bar", <<KV("a", Num(1))>>),
     Arr(<<Arr(<<Num(1)>>)>>),
     Str("John"), Num(30), Num(42), Num(5), Num(11)}

Values == Scalars \cup Arrays \cup Objects \cup OtherValues

\* Lists of types for arrayOf and oneOfType; "bogus" names no validator
TypeLists ==
    {Arr(s) : s \in SeqsUpTo({Str("string"), Str("number"), Str("type"), Str("bogus")},
                             MaxLen)}
    \cup {Undefined, Str("string"), Arr(<<types_string>>),
          Arr(<<Str("string"), Str("number"), Str("bool")>>),
          Arr(<<Str("shape")>>), Arr(<<Str("undefined"), Str("null")>>),
          Arr(<<Str("array"), Str("object"), Str("function")>>)}

OptionLists ==
    {Arr(s) : s \in SeqsUpTo({Num(1), Str("x"), NaN, Undefined}, MaxLen)}
    \cup {Undefined, Str("x"), Arr(<<Str("red"), Str("green"), Str("blue")>>),
          Arr(<<Null, Bool(TRUE), Num(0)>>)}

Classes ==
    {Class("Foo"), Class("Bar"), Class("Object"), Class("Array"), Arrow("f"),
     Str("Foo"), Undefined}

Bounds == {Num(i) : i \in 0..MaxNum} \cup {NaN, Str("1"), Undefined, Num(10)}

\* Shapes whose fields are a primitive kind, or a list of kinds
SimpleShapes ==
    ObjectsOver({Str("number"), Str("undefined"),
                 Arr(<<Str("string"), Str("undefined")>>)})

NameAge == Obj(<<KV("name", Str("string")), KV("age", Str("number"))>>)

OtherShapes ==
    {NameAge,
     Obj(<<KV("name", types_string), KV("age", types_number)>>),
     Obj(<<KV("a", types_number)>>),
     Obj(<<KV("a", types_number), KV("b", types_number)>>),
     Obj(<<KV("b", Str("number")), KV("a", Str("string"))>>),
     Obj(<<KV("a", Str("bogus"))>>),
     Obj(<<KV("a", Null)>>),
     Obj(<<KV("a", Arr(<<Str("number"), Null>>))>>),
     Obj(<<KV("a", Obj(<<KV("a", Str("number"))>>))>>),
     Obj(<<KV("a", Obj(<<KV("a", Obj(<<KV("a", Str("number"))>>))>>))>>),
     Obj(<<KV("a", types_shape(Obj(<<KV("a", Str("number"))>>), Num(2)))>>),
     Obj(<<KV("a", types_shape(Obj(<<KV("a", Str("number"))>>), Undefined))>>),
     Obj(<<KV("a", types_oneOf(Arr(<<Num(1), Str("x")>>)))>>),
     Obj(<<KV("a", types_arrayOf(Arr(<<Str("number")>>)))>>),
     Obj(<<KV("a", types_arrayOf(Arr(<<types_number>>)))>>),
     Obj(<<KV("a", types_range(Num(0), Num(1)))>>),
     Obj(<<KV("a", Obj(<<KV("validator", Str("string"))>>))>>),
     Obj(<<KV("a", Arrow("string"))>>),
     Null, Undefined, Arr(<<>>), Str("number")}

Stricts == {Undefined, Num(0), Num(1), Num(2)}

OtherStricts == {Num(3), Num(-1), NaN, Str("1"), Bool(TRUE), Sym}

\* Descriptors for validateType, built by the helpers of `types`
Descriptors ==
    {types_basic(k) : k \in BasicType}
    \cup {types_arrayOf(Arr(<<types_string, types_number>>)),
          types_arrayOf(Arr(<<>>)),
          types_arrayOf(Arr(<<Str("number")>>)),
          types_arrayOf(Arr(<<types_basic("bogus")>>)),
          types_arrayOf(Arr(<<Null>>)),
          types_arrayOf(Undefined),
          types_oneOf(Arr(<<Num(1), Str("x")>>)),
          types_oneOf(Arr(<<>>)),
          types_oneOfType(Arr(<<types_string, types_number>>)),
          types_oneOfType(Arr(<<types_undefined>>)),
          types_oneOfType(Arr(<<>>)),
          types_instanceOf(Class("Foo")),
          types_instanceOf(Str("Foo")),
          types_range(Num(1), Num(10)),
          types_range(Num(2), Num(1)),
          types_basic("bogus"),
          Str("string"), Str("arrayOf"), Null, Undefined, Num(1)}
    \cup {types_shape(s, k) :
            s \in {NameAge,
                   Obj(<<KV("name", types_string), KV("age", types_number)>>),
                   Obj(<<KV("a", types_number)>>),
                   Obj(<<KV("a", types_bool), KV("b", types_undefined)>>),
                   Obj(<<KV("a", Str("number"))>>)},
            k \in {Undefined, Num(1), Num(2)}}

\* The types declared for a property
DeclaredTypes ==
    {types_number, types_string, types_undefined, Str("number"),
     types_oneOf(Arr(<<Num(1), Str("x")>>)),
     types_shape(Obj(<<KV("a", Str("number"))>>), Undefined),
     types_basic("bogus")}

\* The propTypes: absent, or an object of { type: ... } entries
PropTypes ==
    {Undefined, Null}
    \cup ObjectsOver({Obj(<<KV("type", d)>>) : d \in DeclaredTypes})

Calls ==
    {[fn |-> k, args |-> <<>>] : k \in BasicType \cup {"type"}}
    \cup {[fn |-> "arrayOf", args |-> <<l>>] : l \in TypeLists}
    \cup {[fn |-> "oneOf", args |-> <<o>>] : o \in OptionLists}
    \cup {[fn |-> "oneOfType", args |-> <<l>>] : l \in TypeLists}
    \cup {[fn |-> "instanceOf", args |-> <<c>>] : c \in Classes}
    \cup {[fn |-> "range", args |-> <<lo, hi>>] : lo \in Bounds, hi \in Bounds}
    \cup {[fn |-> "shape", args |-> <<s, k>>] : s \in SimpleShapes, k \in Stricts}
    \cup {[fn |-> "shape", args |-> <<s, k>>] :
            s \in OtherShapes, k \in Stricts \cup OtherStricts}
    \cup {[fn |-> "validateType", args |-> <<d>>] : d \in Descriptors}
    \cup {[fn |-> "usePropTypes", args |-> <<p>>] : p \in PropTypes}

----------------------------------------------------------------------------
(* The state machine: a call is chosen, made, and has returned *)

\* useFetch is not in use: its state as it is before the first render
Unmounted ==
    /\ mounted = "rendered"
    /\ url = 1
    /\ retryCount = 0
    /\ cachePolicy = "no-cache"
    /\ data = 0
    /\ loading = FALSE
    /\ error = "null"
    /\ retryAttempt = 0
    /\ cache = <<>>
    /\ controllers = <<>>
    /\ timers = {}
    /\ chains = <<>>

\* useHistoryState is not in use
NoHistory ==
    /\ history = <<>>
    /\ currentIndex = -1
    /\ states = <<>>

\* useItemHolder is not in use
NoHolder ==
    /\ items = <<>>
    /\ queue = <<>>
    /\ logical = <<>>

\* No timer is set
NoTimer == [id |-> 0, value |-> Null, remaining |-> 0]

\* useDebounce is not in use
NoDebounce ==
    /\ currentValue = Null
    /\ delay = 0
    /\ leading = FALSE
    /\ debouncedValue = Null
    /\ timeoutId = 0
    /\ timeout = NoTimer
    /\ age = 0
    /\ runs = 0
    /\ cancelled = FALSE
    /\ debouncing = "rendered"

\* useEffectX is not in use
NoEffectX ==
    /\ dependencies = Arr(<<>>)
    /\ comparisonFn = "strict"
    /\ prevDepsRef = Undefined
    /\ ran = FALSE
    /\ renders = 0

Init ==
    /\ pc = "ready"
    /\ call \in Calls
    /\ prop \in Values
    /\ result = NoResult
    /\ earlier = NoResult
    /\ Unmounted
    /\ NoHistory
    /\ NoHolder
    /\ NoDebounce
    /\ NoEffectX

\* A return that leaves the validated value changed
Return_mutating(r) ==
    /\ pc' = "done"
    /\ result' = r
    /\ prop' = Undefined
    /\ UNCHANGED <<call, earlier>>
    /\ UNCHANGED notValidatorVars

Return(r) ==
    /\ pc' = "done"
    /\ result' = r
    /\ UNCHANGED <<call, prop, earlier>>
    /\ UNCHANGED notValidatorVars

Ready(fn) == pc = "ready" /\ call.fn = fn

Call_string == Ready("string") /\ Return(validators_string(prop))
Call_number == Ready("number") /\ Return(validators_number(prop))
Call_bool == Ready("bool") /\ Return(validators_bool(prop))
Call_array == Ready("array") /\ Return(validators_array(prop))
Call_object == Ready("object") /\ Return(validators_object(prop))
Call_undefined == Ready("undefined") /\ Return(validators_undefined(prop))
Call_null == Ready("null") /\ Return(validators_null(prop))
Call_function == Ready("function") /\ Return(validators_function(prop))
Call_type == Ready("type") /\ Return(validators_type(prop))
Call_arrayOf == Ready("arrayOf") /\ Return(validators_arrayOf(call.args[1], prop))
Call_oneOf == Ready("oneOf") /\ Return(validators_oneOf(call.args[1], prop))
Call_oneOfType == Ready("oneOfType") /\ Return(validators_oneOfType(call.args[1], prop))
Call_instanceOf == Ready("instanceOf") /\ Return(validators_instanceOf(call.args[1], prop))
Call_shape ==
    Ready("shape") /\ Return(validators_shape(call.args[1], call.args[2], prop))
Call_range ==
    Ready("range") /\ Return(validators_range(call.args[1], call.args[2], prop))
Call_validateType ==
    Ready("validateType") /\ Return(validators("validateType", call.args, prop))
Call_usePropTypes ==
    Ready("usePropTypes") /\ Return(validators("usePropTypes", call.args, prop))

\* The effect runs again for the same props and propTypes (after a render with
\* new but equal objects): the same value is validated against the same type
Revalidate ==
    /\ pc = "done"
    /\ earlier = NoResult
    /\ pc' = "ready"
    /\ earlier' = result
    /\ result' = NoResult
    /\ UNCHANGED <<call, prop>>
    /\ UNCHANGED notValidatorVars

Next ==
    \/ Call_string
    \/ Call_number
    \/ Call_bool
    \/ Call_array
    \/ Call_object
    \/ Call_undefined
    \/ Call_null
    \/ Call_function
    \/ Call_type
    \/ Call_arrayOf
    \/ Call_oneOf
    \/ Call_oneOfType
    \/ Call_instanceOf
    \/ Call_shape
    \/ Call_range
    \/ Call_validateType
    \/ Call_usePropTypes
    \/ Revalidate

Spec == Init /\ [][Next]_vars

----------------------------------------------------------------------------
(* useFetch(url, options, config)                                          *)
(*                                                                         *)
(* A request is what the effect or refetch starts; its attempts are the    *)
(* calls of fetchData made for it, the first by the effect or by refetch   *)
(* and the later ones by the timers it sets. The retry delay is the timer: *)
(* between a failure and the next attempt any other step may happen.       *)
(* State setters of an unmounted component change nothing.                 *)

MaxRetryCount == 2
MaxChains == 3
MaxUrl == 2

Urls == 1..MaxUrl

CachePolicies == {"no-cache", "default"}

\* No validator call is under way
NoCall ==
    /\ pc = "idle"
    /\ call = [fn |-> "none", args |-> <<>>]
    /\ prop = Undefined
    /\ result = NoResult
    /\ earlier = NoResult

\* After the first render: the states at their initial values, the refs too
InitFetch ==
    /\ NoCall
    /\ NoHistory
    /\ NoHolder
    /\ NoDebounce
    /\ NoEffectX
    /\ mounted = "rendered"
    /\ url \in Urls
    /\ retryCount \in 0..MaxRetryCount
    /\ cachePolicy \in CachePolicies
    /\ data = 0
    /\ loading = FALSE
    /\ error = "null"
    /\ retryAttempt = 0
    /\ cache = [u \in Urls |-> 0]
    /\ controllers = <<>>
    /\ timers = {}
    /\ chains = <<>>

\* setState(new) of a state whose value is old
SetState(alive, old, new) == IF alive THEN new ELSE old

\* abortControllerRef.current.abort(), if there is a controller
Abort(ctrls) ==
    IF Len(ctrls) > 0 /\ ctrls[Len(ctrls)].status = "pending"
    THEN [ctrls EXCEPT ![Len(ctrls)].status = "aborted"]
    ELSE ctrls

\* A request that starts
NewChain(u) == [url |-> u, retries |-> 0, errored |-> FALSE, cleaned |-> FALSE]

\* The requests once the cleanup of the effect has run: those started so far
\* are the old ones
Cleaned(chs) == [c \in 1..Len(chs) |-> [chs[c] EXCEPT !.cleaned = TRUE]]

\* fetchData() up to its first await, for request c of url u, the controllers
\* being ctrls: the cached response is stored, or a fetch is issued
fetchData(c, u, alive, ctrls) ==
    /\ error' = SetState(alive, error, "null")
    /\ IF cachePolicy # "no-cache" /\ cache[u] # 0
       THEN /\ data' = SetState(alive, data, cache[u])
            /\ loading' = SetState(alive, loading, FALSE)
            /\ controllers' = ctrls
       ELSE /\ data' = data
            /\ loading' = SetState(alive, loading, TRUE)
            /\ controllers' = Append(ctrls, [chain |-> c, status |-> "pending"])
    /\ UNCHANGED <<cache, retryAttempt>>

\* The effect runs after the first render
Mount ==
    /\ mounted = "rendered"
    /\ mounted' = "mounted"
    /\ chains' = Append(chains, NewChain(url))
    /\ fetchData(Len(chains) + 1, url, TRUE, controllers)
    /\ UNCHANGED <<url, retryCount, cachePolicy, timers>>
    /\ UNCHANGED notFetchVars

\* refetch() is called
Refetch ==
    /\ mounted = "mounted"
    /\ Len(chains) < MaxChains
    /\ chains' = Append(chains, NewChain(url))
    /\ fetchData(Len(chains) + 1, url, TRUE, controllers)
    /\ UNCHANGED <<mounted, url, retryCount, cachePolicy, timers>>
    /\ UNCHANGED notFetchVars

\* A render with another url, or with other options for the same url: the
\* cleanup of the effect runs, then the effect
DepsChange ==
    /\ mounted = "mounted"
    /\ Len(chains) < MaxChains
    /\ \E u \in Urls :
          /\ url' = u
          /\ chains' = Append(Cleaned(chains), NewChain(u))
          /\ fetchData(Len(chains) + 1, u, TRUE, Abort(controllers))
    /\ UNCHANGED <<mounted, retryCount, cachePolicy, timers>>
    /\ UNCHANGED notFetchVars

\* The component unmounts: the cleanup of the effect runs
Unmount ==
    /\ mounted = "mounted"
    /\ mounted' = "unmounted"
    /\ controllers' = Abort(controllers)
    /\ chains' = Cleaned(chains)
    /\ UNCHANGED <<url, retryCount, cachePolicy, data, loading, error, retryAttempt,
                   cache, timers>>
    /\ UNCHANGED notFetchVars

\* The i-th fetch is pending / its signal has been aborted
Pending(i) == i \in 1..Len(controllers) /\ controllers[i].status = "pending"
Aborted(i) == i \in 1..Len(controllers) /\ controllers[i].status = "aborted"

Settle(i) == controllers' = [controllers EXCEPT ![i].status = "settled"]

\* The response of the i-th fetch is ok and is read: the try block to its end,
\* then finally
RespondOk(i) ==
    /\ Pending(i)
    /\ LET c == controllers[i].chain
           alive == mounted # "unmounted"
       IN /\ cache' = IF cachePolicy # "no-cache"
                      THEN [cache EXCEPT ![chains[c].url] = c]
                      ELSE cache
          /\ data' = SetState(alive, data, c)
          /\ loading' = SetState(alive, loading, FALSE)
    /\ Settle(i)
    /\ UNCHANGED <<mounted, url, retryCount, cachePolicy, error, retryAttempt,
                   timers, chains>>
    /\ UNCHANGED notFetchVars

\* The i-th fetch fails (the network, a response that is not ok, its body):
\* the catch block for an error that is no AbortError, then finally
RespondError(i) ==
    /\ Pending(i)
    /\ LET c == controllers[i].chain
           alive == mounted # "unmounted"
       IN /\ IF retryAttempt < retryCount
             THEN /\ retryAttempt' = retryAttempt + 1
                  /\ timers' = timers \cup {c}
                  /\ UNCHANGED <<error, chains>>
             ELSE /\ error' = SetState(alive, error, "Error")
                  /\ chains' = [chains EXCEPT ![c].errored = TRUE]
                  /\ UNCHANGED <<retryAttempt, timers>>
          /\ loading' = SetState(alive, loading, FALSE)
    /\ Settle(i)
    /\ UNCHANGED <<mounted, url, retryCount, cachePolicy, data, cache>>
    /\ UNCHANGED notFetchVars

\* The i-th fetch, aborted, rejects with an AbortError: the catch block, then
\* finally
RespondAbort(i) ==
    /\ Aborted(i)
    /\ loading' = SetState(mounted # "unmounted", loading, FALSE)
    /\ Settle(i)
    /\ UNCHANGED <<mounted, url, retryCount, cachePolicy, data, error, retryAttempt,
                   cache, timers, chains>>
    /\ UNCHANGED notFetchVars

\* The timer of request c fires: fetchData() runs again
RetryTimer(c) ==
    /\ c \in timers
    /\ timers' = timers \ {c}
    /\ chains' = [chains EXCEPT ![c].retries = @ + 1]
    /\ fetchData(c, chains[c].url, mounted # "unmounted", controllers)
    /\ UNCHANGED <<mounted, url, retryCount, cachePolicy>>
    /\ UNCHANGED notFetchVars

NextFetch ==
    \/ Mount
    \/ Refetch
    \/ DepsChange
    \/ Unmount
    \/ \E i \in 1..Len(controllers) : RespondOk(i)
    \/ \E i \in 1..Len(controllers) : RespondError(i)
    \/ \E i \in 1..Len(controllers) : RespondAbort(i)
    \/ \E c \in 1..Len(chains) : RetryTimer(c)

SpecFetch == InitFetch /\ [][NextFetch]_vars

----------------------------------------------------------------------------
(* useHistoryState(states)                                                 *)
(*                                                                         *)
(* A step is an event with the render and the effects that follow it: the  *)
(* handler runs, its state updates are applied in one render, and the      *)
(* effect runs if one of the observed states is another value than in the  *)
(* render before. The result of a handler is [history, currentIndex,       *)
(* states]; currentIndex counts from 0 as in the source, so that the       *)
(* snapshot history[index] of the source is history[index + 1] here.       *)

MaxHistory == 3
NumStates == 2

\* The values an observed state takes
StateValues == {Null, Undefined, Num(0)}

Hook(h, index, st) == [history |-> h, currentIndex |-> index, states |-> st]

\* history[index] of the source: undefined outside the array
Snapshot(h, index) ==
    IF index >= 0 /\ index < Len(h) THEN Arr(h[index + 1]) ELSE Undefined

\* history.slice(0, index + 1) with currentStates pushed, and the index of
\* the entry pushed
Pushed(h, index, currentStates) ==
    LET updatedHistory == Append(SubSeq(h, 1, index + 1), currentStates)
    IN Hook(updatedHistory, Len(updatedHistory) - 1, currentStates)

\* The effect: the observed states are recorded unless their JSON text is
\* that of the current entry
syncEffect(h, index, st) ==
    IF index = -1 \/ JSONStringify(Arr(st)) # JSONStringify(Snapshot(h, index))
    THEN Pushed(h, index, st)
    ELSE Hook(h, index, st)

\* The render after a handler that left the hook at (h, index) and set the
\* observed states, which were prev, to st: the effect runs if a dependency
\* changed
Rendered(h, index, st, prev) ==
    IF st # prev THEN syncEffect(h, index, st) ELSE Hook(h, index, st)

\* applyState(index): the values the observed states are set to
applyState(h, st, index) ==
    IF Snapshot(h, index) = Undefined THEN st ELSE Snapshot(h, index).elems

\* undo that moves without a test of the index
undo_unguarded(h, index, st) ==
    Rendered(h, index - 1, applyState(h, st, index - 1), st)

\* undo(), redo() and addCheckpoint() called when the hook is at (h, index)
\* and the observed states are st
undo(h, index, st) ==
    IF index <= 0 THEN Hook(h, index, st)
    ELSE Rendered(h, index - 1, applyState(h, st, index - 1), st)

redo(h, index, st) ==
    IF index >= Len(h) - 1 THEN Hook(h, index, st)
    ELSE Rendered(h, index + 1, applyState(h, st, index + 1), st)

addCheckpoint(h, index, st) ==
    Rendered(Pushed(h, index, st).history, Pushed(h, index, st).currentIndex, st, st)

canUndo == currentIndex > 0
canRedo == currentIndex < Len(history) - 1

\* After the first render, before the effect has run
InitHistory ==
    /\ NoCall
    /\ Unmounted
    /\ NoHolder
    /\ NoDebounce
    /\ NoEffectX
    /\ history = <<>>
    /\ currentIndex = -1
    /\ states \in [1..NumStates -> StateValues]

\* The hook goes to r
Becomes(r) ==
    /\ history' = r.history
    /\ currentIndex' = r.currentIndex
    /\ states' = r.states
    /\ UNCHANGED notHistoryVars

\* The effect runs after the first render
HistoryMount ==
    /\ currentIndex = -1
    /\ Becomes(syncEffect(history, currentIndex, states))

\* The component sets the i-th observed state to v, another value
ObservedChange(i, v) ==
    /\ currentIndex # -1
    /\ v # states[i]
    /\ currentIndex + 2 <= MaxHistory
    /\ Becomes(Rendered(history, currentIndex, [states EXCEPT ![i] = v], states))

Undo == currentIndex # -1 /\ Becomes(undo(history, currentIndex, states))

Redo == currentIndex # -1 /\ Becomes(redo(history, currentIndex, states))

AddCheckpoint ==
    /\ currentIndex # -1
    /\ currentIndex + 2 <= MaxHistory
    /\ Becomes(addCheckpoint(history, currentIndex, states))

NextHistory ==
    \/ HistoryMount
    \/ \E i \in 1..NumStates, v \in StateValues : ObservedChange(i, v)
    \/ Undo
    \/ Redo
    \/ AddCheckpoint

SpecHistory == InitHistory /\ [][NextHistory]_vars

----------------------------------------------------------------------------
(* useItemHolder: the ItemHolderProvider                                   *)
(*                                                                         *)
(* The functions of the context are those of the last render: they read    *)
(* its `data`. setData(updater) queues the updater; the next render        *)
(* applies the queued updaters in order to the state. A key is the         *)
(* sequence of its characters.                                             *)

MaxQueue == 2
MaxValue == 2

ItemKeys == {<<"a">>, <<"a", "b">>, <<"b">>}
Prefixes == {<<"a">>, <<"b">>}
ItemValues == 1..MaxValue

\* No own property of the key
NoItem == 0

\* {}
EmptyData == [k \in ItemKeys |-> NoItem]

\* obj.hasOwnProperty(key)
hasOwnProperty(obj, key) == obj[key] # NoItem

\* key.startsWith(prefix)
startsWith(key, prefix) ==
    Len(prefix) <= Len(key) /\ SubSeq(key, 1, Len(prefix)) = prefix

\* The updaters
SetKey(key, value) == [op |-> "set", key |-> key, value |-> value]
DropKey(key) == [op |-> "remove", key |-> key, value |-> NoItem]
SetPrefix(prefix, value) == [op |-> "updatePrefix", key |-> prefix, value |-> value]
DropPrefix(prefix) == [op |-> "deletePrefix", key |-> prefix, value |-> NoItem]
Replace == [op |-> "clear", key |-> <<>>, value |-> NoItem]

\* updater(prevData)
Updated(prevData, u) ==
    CASE u.op = "set" -> [prevData EXCEPT ![u.key] = u.value]
      [] u.op = "remove" -> [prevData EXCEPT ![u.key] = NoItem]
      [] u.op = "updatePrefix" ->
           [k \in ItemKeys |->
               IF hasOwnProperty(prevData, k) /\ startsWith(k, u.key)
               THEN u.value ELSE prevData[k]]
      [] u.op = "deletePrefix" ->
           [k \in ItemKeys |-> IF startsWith(k, u.key) THEN NoItem ELSE prevData[k]]
      [] u.op = "clear" -> EmptyData

\* The queued updaters applied in order
RECURSIVE Reduced(_, _)
Reduced(prevData, q) ==
    IF q = <<>> THEN prevData ELSE Reduced(Updated(prevData, Head(q)), Tail(q))

\* getItem(key, defaultValue = null): NoItem stands for the default
getItem(key) == IF hasOwnProperty(items, key) THEN items[key] ELSE NoItem

\* After the first render of the provider
InitHolder ==
    /\ NoCall
    /\ Unmounted
    /\ NoHistory
    /\ NoDebounce
    /\ NoEffectX
    /\ items = EmptyData
    /\ queue = <<>>
    /\ logical = EmptyData

\* A call is made that is to turn the store into l
Called(l) ==
    /\ Len(queue) < MaxQueue
    /\ logical' = l

\* setData(u)
setData(u) ==
    /\ queue' = Append(queue, u)
    /\ UNCHANGED items
    /\ UNCHANGED notHolderVars

\* What updateItem(key, value) is to turn the store into
LogicalUpdate(key, value) ==
    IF hasOwnProperty(logical, key) THEN [logical EXCEPT ![key] = value] ELSE logical

AddItem(key, value) ==
    /\ Called([logical EXCEPT ![key] = value])
    /\ setData(SetKey(key, value))

\* updateItem(key, value): the test reads the data of the last render
UpdateItem(key, value) ==
    /\ Called(LogicalUpdate(key, value))
    /\ IF ~hasOwnProperty(items, key)
       THEN UNCHANGED <<items, queue>> /\ UNCHANGED notHolderVars
       ELSE setData(SetKey(key, value))

RemoveItem(key) ==
    /\ Called([logical EXCEPT ![key] = NoItem])
    /\ setData(DropKey(key))

Clear ==
    /\ Called(EmptyData)
    /\ setData(Replace)

UpdateItemsByPrefix(prefix, newValue) ==
    /\ Called(Updated(logical, SetPrefix(prefix, newValue)))
    /\ setData(SetPrefix(prefix, newValue))

DeleteItemsByPrefix(prefix) ==
    /\ Called(Updated(logical, DropPrefix(prefix)))
    /\ setData(DropPrefix(prefix))

\* The provider renders: the queued updaters are applied
Render ==
    /\ queue # <<>>
    /\ items' = Reduced(items, queue)
    /\ queue' = <<>>
    /\ UNCHANGED logical
    /\ UNCHANGED notHolderVars

NextHolder ==
    \/ \E key \in ItemKeys, value \in ItemValues : AddItem(key, value)
    \/ \E key \in ItemKeys, value \in ItemValues : UpdateItem(key, value)
    \/ \E key \in ItemKeys : RemoveItem(key)
    \/ Clear
    \/ \E prefix \in Prefixes, newValue \in ItemValues : UpdateItemsByPrefix(prefix, newValue)
    \/ \E prefix \in Prefixes : DeleteItemsByPrefix(prefix)
    \/ Render

SpecHolder == InitHolder /\ [][NextHolder]_vars

----------------------------------------------------------------------------
(* useDebounce(value, delay, options)                                      *)
(*                                                                         *)
(* A step of the component is a render with the effect and the render its  *)
(* setTimeoutId brings about. Time passes in ticks; a timer set with delay *)
(* d fires once d ticks have passed.                                       *)

MaxDelay == 2
MaxRuns == 3

InputValues == {Num(0), Num(1), Num(2)}
Delays == 1..MaxDelay

\* After the first render: debouncedValue is useState(leading ? value : null)
InitDebounce ==
    /\ NoCall
    /\ Unmounted
    /\ NoHistory
    /\ NoHolder
    /\ NoEffectX
    /\ currentValue \in InputValues
    /\ delay \in Delays
    /\ leading \in BOOLEAN
    /\ debouncedValue = IF leading THEN currentValue ELSE Null
    /\ timeoutId = 0
    /\ timeout = NoTimer
    /\ age = 0
    /\ runs = 0
    /\ cancelled = FALSE
    /\ debouncing = "rendered"

\* The effect for the arguments v and d, after the cleanup of the one before
\* has cleared its timer: the leading edge, then the new timer and its id
Effect(v, d) ==
    /\ runs < MaxRuns
    /\ runs' = runs + 1
    /\ debouncedValue' = IF leading /\ ~Truthy(debouncedValue) THEN v ELSE debouncedValue
    /\ timeout' = [id |-> runs + 1, value |-> v, remaining |-> d]
    /\ timeoutId' = runs + 1
    /\ cancelled' = FALSE
    /\ currentValue' = v
    /\ delay' = d
    /\ UNCHANGED leading
    /\ UNCHANGED notDebounceVars

\* The effect runs after the first render
DebounceMount ==
    /\ debouncing = "rendered"
    /\ debouncing' = "mounted"
    /\ UNCHANGED age
    /\ Effect(currentValue, delay)

\* A render with another value
ValueChange(v) ==
    /\ debouncing = "mounted"
    /\ v # currentValue
    /\ age' = 0
    /\ UNCHANGED debouncing
    /\ Effect(v, delay)

\* A render with another delay
DelayChange(d) ==
    /\ debouncing = "mounted"
    /\ d # delay
    /\ UNCHANGED <<age, debouncing>>
    /\ Effect(currentValue, d)

\* cancelDebounce(): clearTimeout(timeoutId) if timeoutId is set
CancelDebounce ==
    /\ debouncing = "mounted"
    /\ timeout' = IF timeoutId # 0 /\ timeout.id = timeoutId THEN NoTimer ELSE timeout
    /\ cancelled' = TRUE
    /\ UNCHANGED <<currentValue, delay, leading, debouncedValue, timeoutId, age, runs, debouncing>>
    /\ UNCHANGED notDebounceVars

\* The component unmounts: the cleanup clears the timer
DebounceUnmount ==
    /\ debouncing = "mounted"
    /\ debouncing' = "unmounted"
    /\ timeout' = NoTimer
    /\ UNCHANGED <<currentValue, delay, leading, debouncedValue, timeoutId, age, runs, cancelled>>
    /\ UNCHANGED notDebounceVars

\* A timer that fires without waiting
Due_atOnce(t) == t # NoTimer

\* The timer t is due
Due(t) == t # NoTimer /\ t.remaining = 0

\* Time passes while a timer waits
Tick ==
    /\ timeout # NoTimer
    /\ ~Due(timeout)
    /\ timeout.remaining > 0
    /\ timeout' = [timeout EXCEPT !.remaining = @ - 1]
    /\ age' = IF age < MaxDelay THEN age + 1 ELSE age
    /\ UNCHANGED <<currentValue, delay, leading, debouncedValue, timeoutId, runs, cancelled,
                   debouncing>>
    /\ UNCHANGED notDebounceVars

\* The timer fires: setDebouncedValue(value) with the value of its closure
TimerFires ==
    /\ Due(timeout)
    /\ debouncedValue' = timeout.value
    /\ timeout' = NoTimer
    /\ UNCHANGED <<currentValue, delay, leading, timeoutId, age, runs, cancelled, debouncing>>
    /\ UNCHANGED notDebounceVars

NextDebounce ==
    \/ DebounceMount
    \/ \E v \in InputValues : ValueChange(v)
    \/ \E d \in Delays : DelayChange(d)
    \/ CancelDebounce
    \/ DebounceUnmount
    \/ Tick
    \/ TimerFires

SpecDebounce == InitDebounce /\ [][NextDebounce]_vars

\* Time passes and a timer that is due fires
SpecDebounceLive ==
    /\ SpecDebounce
    /\ WF_vars(DebounceMount)
    /\ WF_vars(Tick)
    /\ WF_vars(TimerFires)

----------------------------------------------------------------------------
(* useEffectX(callback, dependencies, comparisonFn)                        *)
(*                                                                         *)
(* A step is a render with its effect. React runs the effect when callback,*)
(* comparisonFn or dependencies is another object than in the render       *)
(* before, which is every render unless the caller memoizes all three.     *)

MaxDeps == 2
MaxRenders == 3

DepValues == {Num(0), Num(1), NaN, Null}
DepArrays == {Arr(s) : s \in SeqsUpTo(DepValues, MaxDeps)}
ComparisonFns == {"strict", "json"}

\* comparisonFn(a, b): the default (prev, next) => prev === next, or one that
\* compares the JSON texts
Compare(fn, a, b) ==
    IF fn = "strict" THEN StrictEquals(a, b) ELSE JSONStringify(a) = JSONStringify(b)

\* arr[i], counted from 0
At(arr, i) == IF arr.tag = "array" /\ i < Len(arr.elems) THEN arr.elems[i + 1] ELSE Undefined

\* The comparison made one position off
hasChanged_shifted(deps, prev, fn) ==
    \E i \in 0..(Len(deps.elems) - 1) : ~Compare(fn, At(deps, i), At(prev, i + 1))

\* dependencies.some((dep, i) => !comparisonFn(dep, prevDepsRef.current[i]))
hasChanged(deps, prev, fn) ==
    \E i \in 0..(Len(deps.elems) - 1) : ~Compare(fn, At(deps, i), At(prev, i))

InitEffectX ==
    /\ NoCall
    /\ Unmounted
    /\ NoHistory
    /\ NoHolder
    /\ NoDebounce
    /\ dependencies \in DepArrays
    /\ comparisonFn \in ComparisonFns
    /\ prevDepsRef = Undefined
    /\ ran = FALSE
    /\ renders = 0

\* The effect of a render with the dependencies deps
EffectX(deps) ==
    /\ renders < MaxRenders
    /\ renders' = renders + 1
    /\ dependencies' = deps
    /\ IF ~Truthy(prevDepsRef)
       THEN /\ prevDepsRef' = deps
            /\ ran' = TRUE
       ELSE IF hasChanged(deps, prevDepsRef, comparisonFn)
            THEN /\ prevDepsRef' = deps
                 /\ ran' = TRUE
            ELSE /\ UNCHANGED prevDepsRef
                 /\ ran' = FALSE
    /\ UNCHANGED comparisonFn
    /\ UNCHANGED notEffectXVars

\* The effect after the first render
EffectXMount ==
    /\ renders = 0
    /\ EffectX(dependencies)

\* A later render with a new dependencies array
EffectXRender(deps) ==
    /\ renders > 0
    /\ EffectX(deps)

\* A later render with the callback, comparisonFn and dependencies objects of
\* the render before: React does not run the effect
EffectXRenderSame ==
    /\ renders > 0
    /\ renders < MaxRenders
    /\ renders' = renders + 1
    /\ ran' = FALSE
    /\ UNCHANGED <<dependencies, comparisonFn, prevDepsRef>>
    /\ UNCHANGED notEffectXVars

NextEffectX ==
    \/ EffectXMount
    \/ \E deps \in DepArrays : EffectXRender(deps)
    \/ EffectXRenderSame

SpecEffectX == InitEffectX /\ [][NextEffectX]_vars

----------------------------------------------------------------------------
(* The vocabulary of the properties *)

\* The call of fn has returned
Done(fn) == pc = "done" /\ call.fn = fn

\* The kind of a value's runtime type, read off its constructor
RuntimeKind(v) == IF v.tag = "boolean" THEN "bool" ELSE v.tag

\* A non-null object that is no array
IsObjectValue(v) == v.tag = "object"

\* The set of the own keys of a value
KeySet(v) == {v.entries[i].k : i \in 1..Len(v.entries)}

\* v without its properties whose keys are not in keys
Restricted(v, keys) == [v EXCEPT !.entries = SelectSeq(v.entries, LAMBDA e : e.k \in keys)]

\* An array of strings
StringList(l) == IsArray(l) /\ \A i \in 1..Len(l.elems) : l.elems[i].tag = "string"

\* An array of names of validators
KindList(l) == StringList(l) /\ \A i \in 1..Len(l.elems) : l.elems[i].s \in ValidatorNames

\* v satisfies the kind: only a primitive kind is satisfied, by the values of
\* that runtime type
Satisfies(kind, v) == kind \in BasicType /\ RuntimeKind(v) = kind

\* v satisfies at least one kind of the list
SatisfiesSome(l, v) == \E j \in 1..Len(l.elems) : Satisfies(l.elems[j].s, v)

\* The elements of the array v that satisfy no kind of the list
Offending(l, v) == SelectSeq(v.elems, LAMBDA item : ~SatisfiesSome(l, item))

\* A shape all of whose fields are primitive descriptors built by `types`
HelperShape(s) ==
    /\ IsObjectValue(s)
    /\ \A i \in 1..Len(s.entries) : \E k \in BasicType : s.entries[i].v = types_basic(k)

\* v has exactly the fields of the helper shape s, each of its declared kind
ExactInstance(v, s) ==
    /\ IsObjectValue(v)
    /\ KeySet(v) = KeySet(s)
    /\ \A i \in 1..Len(s.entries) :
          RuntimeKind(Get(v, s.entries[i].k)) = Get(s.entries[i].v, "type").s

----------------------------------------------------------------------------
(* The properties *)

\* C1: for each of the eight primitive kinds k and every value v, validating
\* v against k returns true if and only if the runtime type of v is exactly
\* k; so the object check fails for arrays and for null, and the array check
\* succeeds only for arrays.
C1_PrimitiveIffRuntimeKind ==
    \A k \in BasicType :
        Done(k) => ((result = True) <=> (RuntimeKind(prop) = k))

C1_ObjectCheckRejectsNull ==
    Done("object") /\ prop = Null /\ result.kind = "string"

\* C2: under strict = 2 a shape validation succeeds only if the set of the
\* value's own keys equals the set of the declared keys.
C2_ExactKeySets ==
    (Done("shape") /\ call.args[2] = Num(2) /\ result = True)
        => KeySet(prop) = KeySet(call.args[1])

C2_ExactRejectsExtraKey ==
    /\ Done("shape")
    /\ call.args = <<Obj(<<KV("a", Str("number"))>>), Num(2)>>
    /\ prop = Obj(<<KV("a", Num(1)), KV("b", Num(2))>>)
    /\ result.kind = "string"

\* C3: under strict = 0 a value that omits a declared field is tolerated:
\* validating {a: 1} against shape({a: number, b: number}, 0) succeeds.
C3_LenientToleratesMissing ==
    (/\ Done("shape")
     /\ call.args = <<Obj(<<KV("a", Str("number")), KV("b", Str("number"))>>), Num(0)>>
     /\ prop = Obj(<<KV("a", Num(1))>>))
        => result = True

\* C4: under strict = 0 (given or by default) the fields whose keys the
\* shape does not declare are ignored: the validation of a value succeeds
\* exactly when the validation of the value without those fields does.
C4_LenientIgnoresUndeclared ==
    (Done("shape") /\ call.args[2] \in {Undefined, Num(0)})
        => ((result = True)
              <=> (validators_shape(call.args[1], call.args[2],
                                    Restricted(prop, KeySet(call.args[1]))) = True))

C4_LenientAcceptsExtraKey ==
    /\ Done("shape")
    /\ call.args = <<Obj(<<KV("a", Str("number"))>>), Num(0)>>
    /\ prop = Obj(<<KV("a", Num(1)), KV("b", Num(2))>>)
    /\ result = True

\* C5: under strict = 1 a shape validation fails for every value that has a
\* key the shape does not declare, and for every value in which no declared
\* field has a value other than undefined; for an object validated against a
\* shape object, the failure for the undeclared keys is what is returned,
\* before the type of any field is checked.
C5_NoExtraKeys ==
    (Done("shape") /\ call.args[2] = Num(1))
        => LET declared == KeySet(call.args[1])
               extra == SelectSeq(ObjectKeys(prop), LAMBDA key : key \notin declared)
           IN /\ (extra # <<>> => result # True)
              /\ ((\A key \in declared : Get(prop, key) = Undefined) => result # True)
              /\ (extra # <<>> /\ IsObjectValue(call.args[1]) /\ IsObjectValue(prop))
                    => result = ExtraKeysMessage(extra)

C5_ExtraKeyBeforeTypes ==
    /\ Done("shape")
    /\ call.args = <<Obj(<<KV("a", Null)>>), Num(1)>>
    /\ prop = Obj(<<KV("a", Num(1)), KV("b", Num(2))>>)
    /\ result.kind = "string"

\* C6: under strict = 2, for a shape whose fields are primitive descriptors
\* built by the helpers of `types`, an object that has exactly the declared
\* fields, each holding a value of its declared kind, validates successfully,
\* and shape({name: string, age: number}, 2) rejects {name: "John"}.
C6_RoundTripExact ==
    /\ (/\ Done("shape")
        /\ HelperShape(call.args[1])
        /\ call.args[2] = Num(2)
        /\ ExactInstance(prop, call.args[1]))
          => result = True
    /\ (/\ Done("shape")
        /\ call.args = <<Obj(<<KV("name", types_string), KV("age", types_number)>>), Num(2)>>
        /\ prop = Obj(<<KV("name", Str("John"))>>))
          => result # True

C10_OneOfIffStrictlyEqual ==
    (Done("oneOf") /\ IsArray(call.args[1]))
        => ((result = True)
              <=> \E i \in 1..Len(call.args[1].elems) :
                     StrictEquals(call.args[1].elems[i], prop))

\* C10, amended: oneOf succeeds if and only if the value is equal to one
\* member of the options as Array.prototype.includes compares (strict
\* equality, except that NaN is equal to NaN). Every other value fails: for
\* options that are not empty, with the message that names the value and
\* lists the options as JSON, or with a TypeError when the value cannot be
\* converted to a string; for empty options, with the message that the
\* options cannot be empty.
C10_OneOfIffIncluded ==
    (Done("oneOf") /\ IsArray(call.args[1]))
        => /\ (result = True)
                <=> \E i \in 1..Len(call.args[1].elems) :
                       \/ StrictEquals(call.args[1].elems[i], prop)
                       \/ call.args[1].elems[i] = NaN /\ prop = NaN
           /\ (result # True /\ Len(call.args[1].elems) > 0)
                 => IF StringOfThrows(prop) THEN result = SymbolError
                    ELSE result = Message("El valor '" \o StringOf(prop)
                                          \o "' no esta entre las opciones permitidas: "
                                          \o JSONText(call.args[1]))
           /\ Len(call.args[1].elems) = 0
                 => result = Message("El array de opciones proporcionado a oneOf "
                                     \o "no puede estar vacio.")

C10_OneOfAcceptsNaN ==
    /\ Done("oneOf")
    /\ call.args[1] = Arr(<<NaN>>)
    /\ prop = NaN
    /\ result = True

\* A number that is not NaN
IsNumeric(v) == v.tag = "number" /\ ~v.b

\* C11: for range(min, max) with min <= max a numeric value v is accepted if
\* and only if min <= v <= max, both bounds included, and every value that
\* is no number is rejected; range(1, 10) accepts 5 and rejects 11 with a
\* message that names the bounds [1, 10].
C11_RangeInclusive ==
    (/\ Done("range")
     /\ IsNumeric(call.args[1])
     /\ IsNumeric(call.args[2])
     /\ call.args[1].n <= call.args[2].n)
        => /\ (result = True)
                <=> (/\ IsNumeric(prop)
                     /\ call.args[1].n <= prop.n
                     /\ prop.n <= call.args[2].n)
           /\ (call.args = <<Num(1), Num(10)>> /\ prop = Num(11))
                 => result = Message("El valor '11' no esta dentro del rango esperado: [1, 10]")

C11_RangeAcceptsBound ==
    /\ Done("range")
    /\ call.args = <<Num(1), Num(2)>>
    /\ prop = Num(2)
    /\ result = True

\* C12: when min > max, or a bound is no number, range rejects every value,
\* and the rejection is a returned failure message, not an error thrown.
C12_RangeBadBoundsRejected ==
    (/\ Done("range")
     /\ \/ TypeOf(call.args[1]) # "number"
        \/ TypeOf(call.args[2]) # "number"
        \/ /\ IsNumeric(call.args[1])
           /\ IsNumeric(call.args[2])
           /\ call.args[1].n > call.args[2].n)
        => result.kind = "string"

C12_RangeInvertedBounds ==
    /\ Done("range")
    /\ call.args = <<Num(2), Num(1)>>
    /\ prop = Sym
    /\ result = Message("El valor min no puede ser mayor que el valor max.")

\* A list of primitive kinds that is not empty
PrimitiveList(l) ==
    /\ StringList(l)
    /\ Len(l.elems) > 0
    /\ \A i \in 1..Len(l.elems) : l.elems[i].s \in BasicType

\* A shape object whose fields are primitive kinds or lists of them
WellFormedShape(s) ==
    /\ IsObjectValue(s)
    /\ \A i \in 1..Len(s.entries) :
          \/ s.entries[i].v.tag = "string" /\ s.entries[i].v.s \in BasicType
          \/ PrimitiveList(s.entries[i].v)

\* The call is made with well-formed arguments
WellFormedCall(c) ==
    CASE c.fn \in BasicType -> TRUE
      [] c.fn \in {"arrayOf", "oneOfType"} -> PrimitiveList(c.args[1])
      [] c.fn = "oneOf" -> IsArray(c.args[1]) /\ Len(c.args[1].elems) > 0
      [] c.fn = "instanceOf" -> c.args[1].tag = "function" /\ c.args[1].b
      [] c.fn = "shape" ->
           WellFormedShape(c.args[1]) /\ c.args[2] \in {Undefined, Num(0), Num(1), Num(2)}
      [] c.fn = "range" ->
           IsNumeric(c.args[1]) /\ IsNumeric(c.args[2]) /\ c.args[1].n <= c.args[2].n
      [] OTHER -> FALSE

\* C13: for every value and every well-formed descriptor, each validator
\* returns true or a failure message, and never throws.
C13_NeverThrows ==
    (pc = "done" /\ WellFormedCall(call)) => result.kind \in {"true", "string"}

\* A strictness that shape answers with a message: a number below 0 or above
\* 2, or a value that is no number (and no Symbol, and not left out)
RejectedStrict(k) ==
    \/ IsNumeric(k) /\ (k.n < 0 \/ k.n > 2)
    \/ k.tag \notin {"number", "symbol", "undefined"}

\* The call is made with one of the malformed arguments
MalformedCall(c) ==
    CASE c.fn \in {"arrayOf", "oneOfType", "oneOf"} -> c.args[1] = Arr(<<>>)
      [] c.fn = "instanceOf" -> TypeOf(c.args[1]) # "function"
      [] c.fn = "shape" -> RejectedStrict(c.args[2])
      [] OTHER -> FALSE

UnknownFirstField(s) ==
    /\ IsObjectValue(s)
    /\ Len(s.entries) > 0
    /\ s.entries[1].v.tag = "string"
    /\ s.entries[1].v.s \notin ValidatorNames

\* The descriptor's kind is a string that validateType has no case for
UnknownKind(type) ==
    /\ type # Null
    /\ ValidatorKey(type).tag = "string"
    /\ ValidatorKey(type).s \notin BasicType \cup Factories

C17_InvalidStrictRejected ==
    (Done("shape") /\ call.args[2] \notin {Undefined, Num(0), Num(1), Num(2)})
        => result # True

DeclaredType(propTypes, i) == Get(propTypes.entries[i].v, "type")

\* A property declared in propTypes fails validation against its type
SomeDeclaredFails(props, propTypes) ==
    \E i \in 1..Len(propTypes.entries) :
        validateType(DeclaredType(propTypes, i), Get(props, propTypes.entries[i].k)) # True

\* C19: usePropTypes raises an error exactly when a property declared in
\* propTypes fails validation against its declared type; what it does is the
\* same when the properties of props that are not declared are taken away;
\* and when props or propTypes is absent it raises nothing.
C19_ThrowsIffDeclaredFails ==
    Done("usePropTypes") =>
        /\ (Truthy(prop) /\ Truthy(call.args[1]))
              => /\ result.kind = "throw" <=> SomeDeclaredFails(prop, call.args[1])
                 /\ result.kind # "throw" => result = ReturnedNothing
                 /\ result = usePropTypes(Restricted(prop, KeySet(call.args[1])), call.args[1])
        /\ ~(Truthy(prop) /\ Truthy(call.args[1])) => result = ReturnedNothing

C19_SecondDeclaredFails ==
    /\ Done("usePropTypes")
    /\ call.args[1] = Obj(<<KV("a", Obj(<<KV("type", types_number)>>)),
                            KV("b", Obj(<<KV("type", types_string)>>))>>)
    /\ prop = Obj(<<KV("a", Num(1)), KV("b", Num(1))>>)
    /\ result.kind = "throw"

\* C20: a request that fails with an error that is no abort is retried up to
\* retryCount times, each retry started by the timer set at the failure, and
\* the error is set (and onError called) only after the last retry has
\* failed: for the request of the mount and for every later one, a request
\* makes no more than retryCount retries, and one that has set the error has
\* made retryCount retries.
C20_ErrorOnlyAfterRetries ==
    \A c \in 1..Len(chains) :
        /\ chains[c].retries <= retryCount
        /\ chains[c].errored => chains[c].retries = retryCount

\* C21: once the cleanup of the effect has run (the component unmounted, or
\* the url or the options changed), no fetch of a request started before it
\* is pending (the one in flight is aborted and none is started, not even by
\* a timer set earlier), and when a fetch of such a request settles, neither
\* data nor error changes.
C21_CleanedUp ==
    [][/\ \A i \in 1..Len(controllers') :
             chains'[controllers'[i].chain].cleaned => controllers'[i].status # "pending"
       /\ \A i \in 1..Len(controllers) :
             (/\ chains[controllers[i].chain].cleaned
              /\ controllers[i].status # "settled"
              /\ controllers'[i].status = "settled")
                => (data' = data /\ error' = error)]_vars

\* The hook as it is
Here == Hook(history, currentIndex, states)

\* What undo and redo are to do: move by one entry and set the observed
\* states to the values of the entry moved to, the history left as it is;
\* nothing when canUndo, canRedo is false
UndoMoves ==
    /\ canUndo => undo(history, currentIndex, states)
                     = Hook(history, currentIndex - 1, history[currentIndex])
    /\ ~canUndo => undo(history, currentIndex, states) = Here

RedoMoves ==
    /\ canRedo => redo(history, currentIndex, states)
                     = Hook(history, currentIndex + 1, history[currentIndex + 2])
    /\ ~canRedo => redo(history, currentIndex, states) = Here

\* undo() and then redo()
UndoRedo ==
    LET u == undo(history, currentIndex, states)
    IN redo(u.history, u.currentIndex, u.states)

With(i, v) == [states EXCEPT ![i] = v]

\* C28: when an observed state changes so that the observed values differ
\* from the current history entry, and when addCheckpoint is called, the
\* entries after the current position are discarded and the new snapshot
\* becomes the last entry and the current position, so that canRedo is false;
\* and after mount the index satisfies 0 <= index < length of the history.
C28_ChangesAreRecorded ==
    currentIndex # -1 =>
        /\ 0 <= currentIndex /\ currentIndex < Len(history)
        /\ \A i \in 1..NumStates, v \in StateValues :
              (v # states[i] /\ With(i, v) # history[currentIndex + 1])
                 => /\ Rendered(history, currentIndex, With(i, v), states)
                          = Pushed(history, currentIndex, With(i, v))
                    /\ Pushed(history, currentIndex, With(i, v)).currentIndex
                          = Len(Pushed(history, currentIndex, With(i, v)).history) - 1
        /\ addCheckpoint(history, currentIndex, states)
              = Pushed(history, currentIndex, states)
        /\ Pushed(history, currentIndex, states).history
              = Append(SubSeq(history, 1, currentIndex + 1), states)

\* C23: updateItem(key, value) replaces the value of key whenever key was
\* added by an earlier addItem and has not been removed since, so that
\* getItem(key) then returns the new value, and changes nothing, creating no
\* item, when the key does not exist: once the provider has rendered, the
\* store is the one that the calls made describe.
C23_UpdateFollowsCalls ==
    queue = <<>> => /\ items = logical
                    /\ \A key \in ItemKeys : getItem(key) = logical[key]

\* A step that publishes a value
Publishes == debouncedValue' # debouncedValue

\* The value published is the input, which has stayed unchanged for the delay,
\* and cancelDebounce was not called while it waited
AfterDelay ==
    /\ debouncedValue' = currentValue
    /\ currentValue' = currentValue
    /\ age >= delay
    /\ ~cancelled

\* C24: useDebounce publishes an input value only after the input has stayed
\* unchanged for the delay, so a value replaced before its delay elapses is not
\* published and nothing is published after cancelDebounce; and once the input
\* stops changing the latest value is eventually published, unless the update
\* was cancelled or the component unmounted
C24_PublishedAfterDelay ==
    /\ [][Publishes => AfterDelay]_vars
    /\ <>[](debouncing = "unmounted" \/ cancelled \/ debouncedValue = currentValue)

\* The dependency at position i of the render differs from the one recorded
\* before the render, according to comparisonFn
Differs(i) == ~Compare(comparisonFn, At(dependencies', i), At(prevDepsRef, i))

\* The positions of the dependencies of the render
Positions == 0..(Len(dependencies'.elems) - 1)

\* C25: useEffectX runs the callback on the first render, and on a later
\* render only if a dependency differs from the one recorded at its position
\* according to comparisonFn; when every dependency compares equal the
\* callback is not run
C25_RunsOnlyOnChange ==
    [][renders' # renders =>
        /\ renders = 0 => ran'
        /\ (renders > 0 /\ ran') => \E i \in Positions : Differs(i)
        /\ (renders > 0 /\ \A i \in Positions : ~Differs(i)) => ~ran']_vars

\* A later render of dependencies that all compare equal to the recorded ones,
\* without being the same values, in which the callback was not called
C25_RenderSkipped ==
    /\ renders >= 2
    /\ ~ran
    /\ dependencies # prevDepsRef
    /\ Len(dependencies.elems) = MaxDeps

\* The descriptor t, no list, accepts the value: the name of a primitive kind
\* by that kind's validator, a descriptor built by `types` as validateType
\* validates it, any other plain object as a nested shape
MemberAccepts(t, strict, v) ==
    IF TypeOf(t) = "string"
    THEN t.s \in BasicType /\ validators(t.s, <<>>, v) = True
    ELSE IF IsObjectValue(t) /\ (HasKey(t, "validator") \/ HasKey(t, "type"))
    THEN validators("validateType", <<t>>, v) = True
    ELSE IF IsObjectValue(t)
    THEN validators("shape", <<t, strict>>, v) = True
    ELSE FALSE

\* The descriptor d of a field accepts the value: a list accepts when one of
\* its members does
DescriptorAccepts(d, strict, v) ==
    IF IsArray(d) THEN \E j \in 1..Len(d.elems) : MemberAccepts(d.elems[j], strict, v)
    ELSE MemberAccepts(d, strict, v)

\* The i-th declared field of the shape s accepts its value in v
FieldAccepted(s, strict, v, i) ==
    DescriptorAccepts(s.entries[i].v, strict, Get(v, s.entries[i].k))

\* The shape call was made on an object with a strictness of 0, 1 or 2, and
\* the checks of the key sets passed
KeySetsPassed ==
    /\ Done("shape")
    /\ IsObjectValue(call.args[1])
    /\ IsObjectValue(prop)
    /\ call.args[2] \in Stricts
    /\ StrictCheck(call.args[2], ObjectKeys(call.args[1]), ObjectKeys(prop), prop) = True

\* C26: once the checks of the key sets have passed, a shape validation
\* succeeds if and only if the descriptor of every declared field accepts the
\* field's value (a list when a member does, a nested shape recursively), and
\* otherwise returns the failure that names the first field not accepted.
\* Stated of the validations that return, which leaves aside the descriptors
\* and values on which the validation throws.
C26_ShapeIffFieldsAccepted ==
    (KeySetsPassed /\ result.kind # "throw") =>
        LET s == call.args[1]
            strict == call.args[2]
            bad == {i \in 1..Len(s.entries) : ~FieldAccepted(s, strict, prop, i)}
        IN /\ (result = True) <=> (bad = {})
           /\ bad # {} =>
                LET first == CHOOSE i \in bad : \A j \in bad : i <= j
                IN /\ result.kind = "string"
                   /\ result = KeyMessage(s.entries[first].k,
                                          FieldTypes(s, s.entries[first].k),
                                          Get(prop, s.entries[first].k))

\* The call of range reaches its last line: the bounds are numbers, min > max
\* is false, the value is a number and the first bound check
\* (prop < min || prop > max) has passed
PassesFirstCheck(min, max, v) ==
    /\ TypeOf(min) = "number"
    /\ TypeOf(max) = "number"
    /\ ~Greater(min, max)
    /\ TypeOf(v) = "number"
    /\ ~(Less(v, min) \/ Greater(v, max))

\* The result of a range validator that makes the last bound check only
FinalCheckOnly(min, max, v) ==
    IF /\ TypeOf(min) = "number"
       /\ TypeOf(max) = "number"
       /\ ~Greater(min, max)
       /\ TypeOf(v) = "number"
    THEN (IF GreaterEq(v, min) /\ LessEq(v, max) THEN True ELSE RangeMessage(min, max, v))
    ELSE validators_range(min, max, v)

\* C27 as stated: the second bound check of range is redundant; once the
\* first check has passed the final check never fails, so the validator
\* returns true
C27_SecondCheckRedundant ==
    (Done("range") /\ PassesFirstCheck(call.args[1], call.args[2], prop))
        => result = True

\* C27, amended: it is the first bound check of range that is redundant: the
\* result is always that of a validator that makes the final check only. The
\* final check is not redundant: after the first has passed it fails exactly
\* when the value or a bound is NaN.
C27_FirstCheckRedundant ==
    Done("range") =>
        /\ result = FinalCheckOnly(call.args[1], call.args[2], prop)
        /\ PassesFirstCheck(call.args[1], call.args[2], prop)
             => ((result # True) <=> (NaN \in {call.args[1], call.args[2], prop}))

\* range(0, 1)(NaN): the first check passes and the final check rejects
C27_NaNRejectedByFinalCheck ==
    /\ Done("range")
    /\ call.args = <<Num(0), Num(1)>>
    /\ prop = NaN
    /\ result = Message("El valor 'NaN' no esta dentro del rango esperado: [0, 1]")

\* A shape whose fields are names of primitive kinds, nested shapes written
\* as plain objects, and shape descriptors that carry their strictness
RECURSIVE NestedShapes(_)
NestedShapes(s) ==
    /\ IsObjectValue(s)
    /\ \A i \in 1..Len(s.entries) :
          LET d == s.entries[i].v
          IN IF TypeOf(d) = "string" THEN d.s \in BasicType
             ELSE IF IsObjectValue(d) /\ HasKey(d, "validator")
             THEN /\ ObjectKeys(d) = <<"validator", "shapeObj", "strict">>
                  /\ Get(d, "validator") = Str("shape")
                  /\ Get(d, "strict") \in {Num(0), Num(1), Num(2)}
                  /\ NestedShapes(Get(d, "shapeObj"))
             ELSE NestedShapes(d)

\* v conforms to the shape s at the strictness k: the key sets are as k asks,
\* a nested plain object is conformed to at the same k, a shape descriptor at
\* the strictness it carries
RECURSIVE Conforms(_, _, _)
Conforms(s, k, v) ==
    /\ IsObjectValue(v)
    /\ StrictCheck(IF k = Undefined THEN Num(0) ELSE k, ObjectKeys(s), ObjectKeys(v), v) = True
    /\ \A i \in 1..Len(s.entries) :
          LET d == s.entries[i].v
              x == Get(v, s.entries[i].k)
          IN IF TypeOf(d) = "string" THEN validators(d.s, <<>>, x) = True
             ELSE IF HasKey(d, "validator")
             THEN Conforms(Get(d, "shapeObj"), Get(d, "strict"), x)
             ELSE Conforms(d, k, x)

\* C29: a nested shape written as a plain object is validated with the
\* strictness of the enclosing shape, at every depth, and a nested shape
\* descriptor (validator 'shape', shapeObj, strict) with the strictness it
\* carries, whatever the enclosing one
C29_NestedStrictness ==
    (Done("shape") /\ NestedShapes(call.args[1]) /\ call.args[2] \in Stricts)
        => ((result = True) <=> Conforms(call.args[1], call.args[2], prop))

\* shape({a: {a: {a: 'number'}}}, 2) rejects {a: {a: {a: 1, b: 1}}} for the key
\* b two levels down
C29_DeepExtraKeyRejected ==
    /\ Done("shape")
    /\ call.args = <<Obj(<<KV("a", Obj(<<KV("a", Obj(<<KV("a", Str("number"))>>))>>))>>), Num(2)>>
    /\ prop = Obj(<<KV("a", Obj(<<KV("a", Obj(<<KV("a", Num(1)), KV("b", Num(1))>>))>>))>>)
    /\ result.kind = "string"

====
